---- MODULE Spec2Model ----
(***************************************************************************)
(* Teaching-demand state machine of learn-at-home-backend and its effect   *)
(* on the supervisor / supervised fields of the users (Spec), the message  *)
(* sequencer (SpecMsg, SpecMsgSeq), the message queries (SpecQuery), the   *)
(* generic list query (SpecPage), the events (SpecEvt, SpecEvtSeq), the    *)
(* tasks (SpecTask), the contacts (SpecCon), the deletion of an account    *)
(* (SpecDel, SpecDelFair), the error handler (SpecErr), the accept cascade *)
(* with failing queries (SpecFail), the list of the demands (SpecList),    *)
(* the answers to an invitation (SpecInv) and the socket server (SpecSock).*)
(*                                                                         *)
(* Every HTTP request is a handler of controllers/teachingDemandController *)
(* that runs on the Node event loop: the code between two `await`s is one  *)
(* atomic step, and the steps of different requests interleave at the      *)
(* awaits.  A request occupies a slot of `req`; its position is `pc`.      *)
(* Users are the confirmed, non-deleted students and teachers that the     *)
(* route middlewares let through.                                          *)
(***************************************************************************)
EXTENDS Integers, Sequences, FiniteSets, TLC

\* ------------------------------------------------------------------ bounds
MaxDemands == 2
MaxRequests == 4

\* ------------------------------------------------------------------- users
Students == {"s1", "s2"}
Teachers == {"t1", "t2"}
Users == Students \cup Teachers
Null == "null"
Absent == "absent"

\* two requests can be in progress at the same time
Slots == {"r1", "r2"}
\* a request takes the first slot unless that one is busy
FirstSlot == "r1"

VARIABLES
  demands,      \* the Teaching_demand collection, in insertion order; _id = index
  supervisor,   \* User.supervisor of every student
  supervised,   \* User.supervised of every teacher (a list)
  req,          \* the requests being handled, one per slot
  started,      \* number of requests received so far
  messages,     \* the Message collection, in insertion order
  now,          \* the last value that Date.now() returned
  mreq,         \* the sendMessage requests being handled, one per slot
  sends,        \* number of sendMessage requests received so far
  qres,         \* the answer to the last message query
  docs,         \* the collection behind a generic list route, in sort order
  pres,         \* the last generic list request and its answer
  events,       \* the Event collection
  ereq,         \* the event requests being handled, one per slot
  tasks,        \* the Task collection, in insertion order; _id = index
  treq,         \* the task requests being handled, one per slot
  contacts,     \* User.contacts of every user (a list)
  invitations,  \* User.invitations of every user (a list)
  creq,         \* the contact request being handled
  accounts,     \* the User documents: active, soft-deleted or removed
  timeouts,     \* the TIMEOUTS map of utils/globals
  timers,       \* the setTimeout callbacks that have not run yet
  dreq,         \* the deleteMe requests being handled, one per slot
  eres,         \* the last error given to the error handler and its answer
  sockets,      \* the sockets that connected, in order, live or not
  connections,  \* the SOCKET_CONNECTIONS list of utils/globals
  sres,         \* the answer to the last getConnectionStatus
  notif         \* the last notification emitted to the chat room

demandVars == <<demands, supervisor, supervised, req, started>>
msgVars == <<messages, now, mreq, sends, qres>>
pageVars == <<docs, pres>>
evtVars == <<events, ereq>>
taskVars == <<tasks, treq>>
conVars == <<contacts, invitations, creq>>
delVars == <<accounts, timeouts, timers, dreq>>
errVars == <<eres>>
sockVars == <<sockets, connections, sres, notif>>
vars ==
  <<demandVars, msgVars, pageVars, evtVars, taskVars, conVars, delVars, errVars,
    sockVars>>
store == <<demands, supervisor, supervised>>
\* what the handlers of the teaching demands never touch
notDemandVars ==
  <<msgVars, pageVars, evtVars, taskVars, conVars, delVars, errVars,
    sockVars>>
\* likewise for the handlers of the messages, the lists, the events, the
\* tasks, the contacts, the account deletion and the error handler
notMsgVars ==
  <<demandVars, pageVars, evtVars, taskVars, conVars, delVars, errVars,
    sockVars>>
notPageVars ==
  <<demandVars, msgVars, evtVars, taskVars, conVars, delVars, errVars,
    sockVars>>
notEvtVars ==
  <<demandVars, msgVars, pageVars, taskVars, conVars, delVars, errVars,
    sockVars>>
notTaskVars ==
  <<demandVars, msgVars, pageVars, evtVars, conVars, delVars, errVars,
    sockVars>>
notConVars ==
  <<demandVars, msgVars, pageVars, evtVars, taskVars, delVars, errVars,
    sockVars>>
notDelVars ==
  <<demandVars, msgVars, pageVars, evtVars, taskVars, conVars, errVars,
    sockVars>>
notErrVars ==
  <<demandVars, msgVars, pageVars, evtVars, taskVars, conVars, delVars,
    sockVars>>
\* and for the socket handlers of the server
notSockVars ==
  <<demandVars, msgVars, pageVars, evtVars, taskVars, conVars, delVars,
    errVars>>

\* ------------------------------------------------------------ responses
NoResp == [status |-> 0, message |-> ""]
AppError(message, statusCode) == [status |-> statusCode, message |-> message]
Success(statusCode) == [status |-> statusCode, message |-> "success"]
\* catchAsync forwards a thrown error, which carries no statusCode, to the
\* error controller, which answers 500.
InternalError == [status |-> 500, message |-> "error"]

IdleReq ==
  [op |-> "none", pc |-> "idle", actor |-> Null, receiver |-> Null,
   demandId |-> 0, supervised |-> <<>>, resp |-> NoResp]

Free(r) == req[r].pc \in {"idle", "done"}
Quiescent == \A r \in Slots : Free(r)

\* --------------------------------------------------------- store queries
DemandIds == 1..Len(demands)

\* the ids a request can name: those of the collection and one that is not
\* in it
RequestIds == 1..(Len(demands) + 1)

\* TeachingDemand.findById
FindById(id) == IF id \in DemandIds THEN id ELSE 0

MinOf(S) == CHOOSE x \in S : \A y \in S : x <= y

\* TeachingDemand.findOne(filter): the first matching document, 0 when none
\* (hits are the ids of the documents that match the filter)
FindOne(hits) == IF hits = {} THEN 0 ELSE MinOf(hits)

\* TeachingDemand.findOneAndUpdate({_id}, {accepted: true})
SetAccepted(ds, id) == [ds EXCEPT ![id].accepted = TRUE]

\* TeachingDemand.findOneAndUpdate({_id}, {cancelled: true})
SetCancelled(ds, id) == [ds EXCEPT ![id].cancelled = TRUE]

\* TeachingDemand.updateMany({sender, receiver: {$ne: receiver}}, {cancelled: true})
CancelOthers(ds, sender, receiver) ==
  [i \in DOMAIN ds |->
     IF ds[i].sender = sender /\ ds[i].receiver # receiver
     THEN [ds[i] EXCEPT !.cancelled = TRUE]
     ELSE ds[i]]

\* the field as a query that selects it would return it
FindUserSupervisedSelected(t) == supervised[t]

\* User.findById(id) without .select('+supervised'): the schema declares
\* supervised with select: false, so the document comes back without it.
FindUserSupervised(t) == Absent

\* supervisor.supervised?.map(...) || [] followed by push(sender)
PushSupervised(read, sender) ==
  Append(IF read = Absent THEN <<>> ELSE read, sender)

\* ------------------------------------------------------------------ init
NoQuery == [op |-> "none"]

\* no teaching demand, no request
DemandsEmpty ==
  /\ demands = <<>>
  /\ supervisor = [s \in Students |-> Null]
  /\ supervised = [t \in Teachers |-> <<>>]
  /\ req = [r \in Slots |-> IdleReq]
  /\ started = 0

IdleMsgReq ==
  [pc |-> "idle", sender |-> Null, receiver |-> Null, content |-> Absent,
   files |-> <<>>, indexMessage |-> 0, sent |-> 0, resp |-> NoResp]

\* no message, no request
MessagesEmpty ==
  /\ messages = <<>>
  /\ now = 0
  /\ mreq = [r \in Slots |-> IdleMsgReq]
  /\ sends = 0
  /\ qres = NoQuery

\* an empty collection, no request
PageEmpty ==
  /\ docs = <<>>
  /\ pres = NoQuery

Events == {"e1"}

\* the place of an event that is not created yet
NoEvent == [organizer |-> Null, guests |-> <<>>, attendees |-> <<>>]

\* listless: the body of the request had no guests and no attendees
IdleEvtReq ==
  [op |-> "none", pc |-> "idle", user |-> Null, event |-> Null,
   guests |-> <<>>, attendees |-> <<>>, listless |-> FALSE,
   resp |-> NoResp]

\* no event, no request
EventsEmpty ==
  /\ events = [e \in Events |-> NoEvent]
  /\ ereq = [r \in Slots |-> IdleEvtReq]

IdleTaskReq ==
  [op |-> "none", pc |-> "idle", user |-> Null, task |-> 0, done |-> FALSE,
   resp |-> NoResp]

\* no task, no request
TasksEmpty ==
  /\ tasks = <<>>
  /\ treq = [r \in Slots |-> IdleTaskReq]

ConUsers == {"s1", "s2", "t1"}

IdleConReq ==
  [op |-> "none", pc |-> "idle", user |-> Null, contact |-> Null,
   contacts |-> <<>>, otherContacts |-> <<>>, invitations |-> <<>>,
   resp |-> NoResp]

\* no contact, no invitation, no request
ContactsEmpty ==
  /\ contacts = [u \in ConUsers |-> <<>>]
  /\ invitations = [u \in ConUsers |-> <<>>]
  /\ creq = IdleConReq

DelUsers == {"s1", "t1"}

IdleDelReq ==
  [op |-> "none", pc |-> "idle", user |-> Null, updatedUser |-> Null,
   resp |-> NoResp]

\* every account active, no timer, no request
AccountsActive ==
  /\ accounts = [u \in DelUsers |-> "active"]
  /\ timeouts = [u \in DelUsers |-> Absent]
  /\ timers = {}
  /\ dreq = [r \in Slots |-> IdleDelReq]

\* no error handled yet
ErrEmpty == eres = NoQuery

\* no socket has connected yet
NoSockets ==
  /\ sockets = <<>>
  /\ connections = <<>>
  /\ sres = NoQuery
  /\ notif = NoQuery

Rest ==
  /\ EventsEmpty
  /\ TasksEmpty
  /\ ContactsEmpty
  /\ AccountsActive
  /\ ErrEmpty
  /\ NoSockets

Init ==
  /\ DemandsEmpty
  /\ MessagesEmpty
  /\ PageEmpty
  /\ Rest

\* a request arrives on a free slot
Arrive(r) ==
  /\ Free(r)
  /\ started < MaxRequests
  /\ started' = started + 1

InFlightSends == {r \in Slots : req[r].op = "sendDemand" /\ ~Free(r)}

\* ------------------------------------------------------- request arrival
\* POST /teaching-demands/user/:userId, restrictTo('student'),
\* restrictReceiverToTeacher
StartSend(r, s, t) ==
  /\ Arrive(r)
  /\ Len(demands) + Cardinality(InFlightSends) < MaxDemands
  /\ req' = [req EXCEPT ![r] =
       [IdleReq EXCEPT !.op = "sendDemand", !.pc = "findExisting",
                       !.actor = s, !.receiver = t]]
  /\ UNCHANGED store
  /\ UNCHANGED notDemandVars

\* PATCH /teaching-demands/:demandId/accept, restrictTo('teacher')
StartAccept(r, t, d) ==
  /\ Arrive(r)
  /\ req' = [req EXCEPT ![r] =
       [IdleReq EXCEPT !.op = "acceptDemand", !.pc = "find",
                       !.actor = t, !.demandId = d]]
  /\ UNCHANGED store
  /\ UNCHANGED notDemandVars

\* PATCH /teaching-demands/:demandId/cancel, restrictTo('student', 'teacher')
StartCancel(r, u, d) ==
  /\ Arrive(r)
  /\ req' = [req EXCEPT ![r] =
       [IdleReq EXCEPT !.op = "cancelDemand", !.pc = "find",
                       !.actor = u, !.demandId = d]]
  /\ UNCHANGED store
  /\ UNCHANGED notDemandVars

\* res.status(..).json(..) or next(err): the handler is over, its locals are
\* gone and only the answer remains.
Respond(r, resp) ==
  req' = [req EXCEPT ![r] =
            [IdleReq EXCEPT !.op = req[r].op, !.pc = "done", !.resp = resp]]

Goto(r, pc) == req' = [req EXCEPT ![r].pc = pc]

\* ------------------------------------------------------------ sendDemand
\* the existence check with the cancelled flag of its filter inverted
SendFindExistingCancelled(r) ==
  /\ req[r].op = "sendDemand" /\ req[r].pc = "findExisting"
  /\ LET existingDemand ==
           FindOne({i \in DemandIds : /\ demands[i].sender = req[r].actor
                                      /\ demands[i].receiver = req[r].receiver
                                      /\ demands[i].cancelled = TRUE})
     IN IF existingDemand # 0
        THEN Respond(r, AppError(
               IF demands[existingDemand].accepted
               THEN "already collaborating" ELSE "pending teaching request",
               400))
        ELSE Goto(r, "findApproved")
  /\ UNCHANGED <<store, started>>
  /\ UNCHANGED notDemandVars

SendFindExisting(r) ==
  /\ req[r].op = "sendDemand" /\ req[r].pc = "findExisting"
  /\ LET existingDemand ==
           FindOne({i \in DemandIds : /\ demands[i].sender = req[r].actor
                                      /\ demands[i].receiver = req[r].receiver
                                      /\ demands[i].cancelled = FALSE})
     IN IF existingDemand # 0
        THEN Respond(r, AppError(
               IF demands[existingDemand].accepted
               THEN "already collaborating" ELSE "pending teaching request",
               400))
        ELSE Goto(r, "findApproved")
  /\ UNCHANGED <<store, started>>
  /\ UNCHANGED notDemandVars

SendFindApproved(r) ==
  /\ req[r].op = "sendDemand" /\ req[r].pc = "findApproved"
  /\ LET existingApprovedDemand ==
           FindOne({i \in DemandIds : /\ demands[i].sender = req[r].actor
                                      /\ demands[i].accepted = TRUE})
     IN IF existingApprovedDemand # 0
        THEN Respond(r, AppError("multiple mentors", 400))
        ELSE Goto(r, "create")
  /\ UNCHANGED <<store, started>>
  /\ UNCHANGED notDemandVars

\* TeachingDemand.create(...) starts the insertion and returns a promise;
\* calling .populate on that promise throws, so the request is answered
\* with an error while the insertion is still on its way.
SendCreate(r) ==
  /\ req[r].op = "sendDemand" /\ req[r].pc = "create"
  /\ req' = [req EXCEPT ![r].pc = "inserting", ![r].resp = InternalError]
  /\ UNCHANGED <<store, started>>
  /\ UNCHANGED notDemandVars

SendInsert(r) ==
  /\ req[r].op = "sendDemand" /\ req[r].pc = "inserting"
  /\ demands' = Append(demands,
       [sender |-> req[r].actor, receiver |-> req[r].receiver,
        accepted |-> FALSE, cancelled |-> FALSE])
  /\ Respond(r, req[r].resp)
  /\ UNCHANGED <<supervisor, supervised, started>>
  /\ UNCHANGED notDemandVars

\* ---------------------------------------------------------- acceptDemand
AcceptFind(r) ==
  /\ req[r].op = "acceptDemand" /\ req[r].pc = "find"
  /\ LET demand == FindById(req[r].demandId)
     IN IF demand = 0
        THEN Respond(r, AppError("no demand found", 404))
        ELSE IF demands[demand].receiver # req[r].actor
        THEN Respond(r, AppError("not sent to you", 403))
        ELSE IF demands[demand].cancelled
        THEN Respond(r, AppError("cannot accept cancelled", 400))
        ELSE Goto(r, "setAccepted")
  /\ UNCHANGED <<store, started>>
  /\ UNCHANGED notDemandVars

AcceptSetAccepted(r) ==
  /\ req[r].op = "acceptDemand" /\ req[r].pc = "setAccepted"
  /\ demands' = SetAccepted(demands, req[r].demandId)
  /\ Goto(r, "cancelOthers")
  /\ UNCHANGED <<supervisor, supervised, started>>
  /\ UNCHANGED notDemandVars

AcceptCancelOthers(r) ==
  /\ req[r].op = "acceptDemand" /\ req[r].pc = "cancelOthers"
  /\ LET updatedDemand == demands[req[r].demandId]
     IN demands' = CancelOthers(demands, updatedDemand.sender,
                                updatedDemand.receiver)
  /\ Goto(r, "setSupervisor")
  /\ UNCHANGED <<supervisor, supervised, started>>
  /\ UNCHANGED notDemandVars

AcceptSetSupervisor(r) ==
  /\ req[r].op = "acceptDemand" /\ req[r].pc = "setSupervisor"
  /\ LET updatedDemand == demands[req[r].demandId]
     IN supervisor' = [supervisor EXCEPT
                         ![updatedDemand.sender] = updatedDemand.receiver]
  /\ Goto(r, "readSupervised")
  /\ UNCHANGED <<demands, supervised, started>>
  /\ UNCHANGED notDemandVars

AcceptReadSupervised(r) ==
  /\ req[r].op = "acceptDemand" /\ req[r].pc = "readSupervised"
  /\ LET updatedDemand == demands[req[r].demandId]
     IN req' = [req EXCEPT
          ![r].pc = "writeSupervised",
          ![r].supervised =
             PushSupervised(FindUserSupervised(updatedDemand.receiver),
                            updatedDemand.sender)]
  /\ UNCHANGED <<store, started>>
  /\ UNCHANGED notDemandVars

AcceptWriteSupervised(r) ==
  /\ req[r].op = "acceptDemand" /\ req[r].pc = "writeSupervised"
  /\ LET updatedDemand == demands[req[r].demandId]
     IN supervised' = [supervised EXCEPT
                         ![updatedDemand.receiver] = req[r].supervised]
  /\ Respond(r, Success(200))
  /\ UNCHANGED <<demands, supervisor, started>>
  /\ UNCHANGED notDemandVars

\* ---------------------------------------------------------- cancelDemand
CancelFind(r) ==
  /\ req[r].op = "cancelDemand" /\ req[r].pc = "find"
  /\ LET demand == FindById(req[r].demandId)
     IN IF demand = 0
        THEN Respond(r, AppError("no demand found", 404))
        ELSE IF demands[demand].receiver # req[r].actor
        THEN IF demands[demand].sender # req[r].actor
             THEN Respond(r, AppError("not sent by you", 403))
             ELSE Respond(r, AppError("not sent to you", 403))
        ELSE IF demands[demand].accepted
        THEN Respond(r, AppError("cannot cancel accepted", 400))
        ELSE Goto(r, "setCancelled")
  /\ UNCHANGED <<store, started>>
  /\ UNCHANGED notDemandVars

CancelSetCancelled(r) ==
  /\ req[r].op = "cancelDemand" /\ req[r].pc = "setCancelled"
  /\ demands' = SetCancelled(demands, req[r].demandId)
  /\ Respond(r, Success(200))
  /\ UNCHANGED <<supervisor, supervised, started>>
  /\ UNCHANGED notDemandVars

\* ------------------------------------------------------------------ next
Next ==
  \/ \E r \in Slots, s \in Students, t \in Teachers : StartSend(r, s, t)
  \/ \E r \in Slots, t \in Teachers, d \in RequestIds : StartAccept(r, t, d)
  \/ \E r \in Slots, u \in Users, d \in RequestIds : StartCancel(r, u, d)
  \/ \E r \in Slots : SendFindExisting(r)
  \/ \E r \in Slots : SendFindApproved(r)
  \/ \E r \in Slots : SendCreate(r)
  \/ \E r \in Slots : SendInsert(r)
  \/ \E r \in Slots : AcceptFind(r)
  \/ \E r \in Slots : AcceptSetAccepted(r)
  \/ \E r \in Slots : AcceptCancelOthers(r)
  \/ \E r \in Slots : AcceptSetSupervisor(r)
  \/ \E r \in Slots : AcceptReadSupervised(r)
  \/ \E r \in Slots : AcceptWriteSupervised(r)
  \/ \E r \in Slots : CancelFind(r)
  \/ \E r \in Slots : CancelSetCancelled(r)

Spec == Init /\ [][Next]_vars

\* An awaited query of the accept cascade rejects (the connection to the
\* database is lost, the query times out): the await throws, catchAsync
\* hands the error to next and the handler is over. The queries that were
\* already awaited stay applied: acceptDemand runs in no transaction and
\* has no compensation.
CascadeSteps ==
  {"cancelOthers", "setSupervisor", "readSupervised", "writeSupervised"}

AcceptRejects(r) ==
  /\ req[r].op = "acceptDemand" /\ req[r].pc \in CascadeSteps
  /\ Respond(r, InternalError)
  /\ UNCHANGED <<store, started>>
  /\ UNCHANGED notDemandVars

NextFail == Next \/ \E r \in Slots : AcceptRejects(r)

SpecFail == Init /\ [][NextFail]_vars

\* --------------------------------------------------------- getAllDemands
\* the paths of teachingDemandSchema that hold a user
SchemaPaths == {"sender", "receiver"}

\* TeachingDemand.find({[key]: id}).  A key that is no path of the schema
\* is taken out of the filter when the strictQuery option of the installed
\* mongoose is on, and matches no document when it is off.
FindDemands(key, id, strictQuery) ==
  IF key \in SchemaPaths
  THEN {i \in DemandIds : demands[i][key] = id}
  ELSE IF strictQuery THEN DemandIds ELSE {}

\* GET /teaching-demands, restrictTo('student', 'teacher')
GetAllDemands(r, id, strictQuery) ==
  /\ Arrive(r)
  /\ LET role == IF id \in Students THEN "student" ELSE "teacher"
         teachingDemands ==
           FindDemands(IF role = "student" THEN "sender" ELSE "teacher",
                       id, strictQuery)
     IN req' = [req EXCEPT ![r] =
          [IdleReq EXCEPT
             !.op = "getAllDemands", !.pc = "done", !.actor = id,
             !.resp = [status |-> 200, message |-> "success",
                       data |-> teachingDemands]]]
  /\ UNCHANGED store
  /\ UNCHANGED notDemandVars

\* the demands are sent and listed, one request at a time
NextList ==
  \/ \E s \in Students, t \in Teachers : StartSend(FirstSlot, s, t)
  \/ SendFindExisting(FirstSlot)
  \/ SendFindApproved(FirstSlot)
  \/ SendCreate(FirstSlot)
  \/ SendInsert(FirstSlot)
  \/ \E id \in Users, strictQuery \in BOOLEAN :
       GetAllDemands(FirstSlot, id, strictQuery)

SpecList == Init /\ [][NextList]_vars

TypeOK ==
  /\ Len(demands) <= MaxDemands
  /\ \A i \in DemandIds : demands[i].sender \in Students
                          /\ demands[i].receiver \in Teachers
  /\ \A s \in Students : supervisor[s] \in Teachers \cup {Null}

\* =================================================== message sequencer
\* sendMessage of controllers/messageController; the route lets students
\* and teachers through, and a message goes to another user.
MaxSends == 3

MsgUsers == {"s1", "s2", "t1"}

\* req.body: the content (blank, a text, or absent with a file uploaded)
MsgBodies ==
  { [content |-> "  ", files |-> <<>>],
    [content |-> "hi", files |-> <<>>],
    [content |-> Absent, files |-> <<"f1">>] }

\* String.prototype.trim on the contents above
Trim(content) == IF content = "  " THEN "" ELSE content

\* !files?.length && !content?.trim().length
IsEmptyBody(content, files) ==
  /\ Len(files) = 0
  /\ (content = Absent \/ Trim(content) = "")

MessageIds == 1..Len(messages)

\* {$or: [{sender, receiver}, {sender: receiver, receiver: sender}]}
Between(a, b) ==
  {i \in MessageIds :
     \/ messages[i].sender = a /\ messages[i].receiver = b
     \/ messages[i].sender = b /\ messages[i].receiver = a}

\* .sort({sent: -1}).limit(1): a document with the greatest sent; which one
\* of several with the same sent is not specified.  0 stands for null.
LatestBySent(ids) ==
  IF ids = {} THEN {0}
  ELSE {i \in ids : \A j \in ids : messages[j].sent <= messages[i].sent}

\* lastMessage ? ++lastMessage.indexMessage : 1
NextIndex(lastMessage) ==
  IF lastMessage = 0 THEN 1 ELSE messages[lastMessage].indexMessage + 1

MsgFree(r) == mreq[r].pc \in {"idle", "done"}

\* The handler starts; an empty body is answered with next(new AppError(..,
\* 400)), but the handler does not return and goes on to the lookup.
StartSendMessage(r, a, b, body) ==
  /\ MsgFree(r)
  /\ r = FirstSlot \/ ~MsgFree(FirstSlot)
  /\ sends < MaxSends
  /\ a # b
  /\ sends' = sends + 1
  /\ mreq' = [mreq EXCEPT ![r] =
       [IdleMsgReq EXCEPT
          !.pc = "findLast", !.sender = a, !.receiver = b,
          !.content = body.content, !.files = body.files,
          !.resp = IF IsEmptyBody(body.content, body.files)
                   THEN AppError("content empty", 400) ELSE NoResp]]
  /\ UNCHANGED <<messages, now, qres>>
  /\ UNCHANGED notMsgVars

\* sendMessage when no other sendMessage is being handled
StartSendMessageAlone(r, a, b, body) ==
  /\ \A q \in Slots : MsgFree(q)
  /\ StartSendMessage(r, a, b, body)

\* await Message.findOne(..).select('indexMessage').sort({sent: -1}); then
\* the arguments of Message.create are evaluated: the index and Date.now(),
\* which is not smaller than the value it returned before.
MsgFindLast(r) ==
  /\ mreq[r].pc = "findLast"
  /\ \E lastMessage \in LatestBySent(Between(mreq[r].sender, mreq[r].receiver)),
        t \in {now, now + 1} :
       /\ now' = t
       /\ mreq' = [mreq EXCEPT ![r].pc = "create",
                               ![r].indexMessage = NextIndex(lastMessage),
                               ![r].sent = t]
  /\ UNCHANGED <<messages, sends, qres>>
  /\ UNCHANGED notMsgVars

\* await Message.create(..) (the schema trims the content), then
\* res.status(201).json(..), which throws when the 400 is already sent.
MsgCreate(r) ==
  /\ mreq[r].pc = "create"
  /\ messages' = Append(messages,
       [sender |-> mreq[r].sender, receiver |-> mreq[r].receiver,
        content |-> Trim(mreq[r].content), files |-> mreq[r].files,
        sent |-> mreq[r].sent, indexMessage |-> mreq[r].indexMessage])
  /\ mreq' = [mreq EXCEPT ![r] =
       [IdleMsgReq EXCEPT
          !.pc = "done",
          !.resp = IF mreq[r].resp = NoResp THEN Success(201)
                   ELSE mreq[r].resp]]
  /\ UNCHANGED <<now, sends, qres>>
  /\ UNCHANGED notMsgVars

NextMsg ==
  \/ \E r \in Slots, a \in MsgUsers, b \in MsgUsers, body \in MsgBodies :
       StartSendMessage(r, a, b, body)
  \/ \E r \in Slots : MsgFindLast(r)
  \/ \E r \in Slots : MsgCreate(r)

SpecMsg == Init /\ [][NextMsg]_vars

NextMsgSeq ==
  \/ \E r \in Slots, a \in MsgUsers, b \in MsgUsers, body \in MsgBodies :
       StartSendMessageAlone(r, a, b, body)
  \/ \E r \in Slots : MsgFindLast(r)
  \/ \E r \in Slots : MsgCreate(r)

SpecMsgSeq == Init /\ [][NextMsgSeq]_vars

\* ====================================================== message queries
\* getConversation and getLastMessages only read the messages; they are
\* applied to the stores that sendMessage calls answered one after the other
\* leave behind.
DirectedPairs == {p \in MsgUsers \X MsgUsers : p[1] # p[2]}

\* n messages: p gives sender and receiver, d whether Date.now() advanced
\* since the message before
History(n, p, d) ==
  [i \in 1..n |->
     [sender |-> p[i][1], receiver |-> p[i][2],
      content |-> "hi", files |-> <<>>,
      sent |-> Cardinality({j \in 2..i : d[j] = 1}),
      indexMessage |->
        Cardinality({j \in 1..i : {p[j][1], p[j][2]} = {p[i][1], p[i][2]}})]]

Histories ==
  UNION {{History(n, p, d) :
            p \in [1..n -> DirectedPairs], d \in [2..n -> {0, 1}]} :
         n \in 0..MaxSends}

InitQuery ==
  /\ DemandsEmpty
  /\ PageEmpty
  /\ Rest
  /\ messages \in Histories
  /\ now = IF messages = <<>> THEN 0 ELSE messages[Len(messages)].sent
  /\ mreq = [r \in Slots |-> IdleMsgReq]
  /\ sends = Len(messages)
  /\ qres = NoQuery

\* req.query.page and req.query.limit: missing, a number or another text
PageValues == {Absent, "1", "2", "x"}
LimitValues == {Absent, "1", "x"}

\* +value for the texts that are numbers; the others (a missing parameter
\* too) give NaN
ToNumber ==
  ("0" :> 0) @@ ("1" :> 1) @@ ("2" :> 2) @@ ("5" :> 5) @@ ("10" :> 10)

IsNaN(value) == value \notin DOMAIN ToNumber

\* .sort({sent: 'desc'}): the documents by decreasing sent; the order of
\* documents with the same sent is not specified
RECURSIVE SortedBySentDesc(_)
SortedBySentDesc(ids) ==
  IF ids = {} THEN {<<>>}
  ELSE UNION {{<<i>> \o q : q \in SortedBySentDesc(ids \ {i})} :
              i \in LatestBySent(ids)}

\* .skip(skip).limit(limit)
SkipLimit(q, skip, limit) ==
  IF skip >= Len(q) THEN <<>>
  ELSE SubSeq(q, skip + 1, IF skip + limit < Len(q) THEN skip + limit
                            ELSE Len(q))

\* {$or: [{sender: {$in: [sender, receiver]}},
\*        {receiver: {$in: [sender, receiver]}}]}
ConversationFilter(sender, receiver) ==
  {i \in MessageIds :
     \/ messages[i].sender \in {sender, receiver}
     \/ messages[i].receiver \in {sender, receiver}}

\* GET /messages/conversation/:userId by sender; the result lists the
\* documents by their position in the collection
GetConversation(sender, receiver, page, limit) ==
  /\ qres = NoQuery
  /\ sender # receiver
  /\ IF \/ page # Absent /\ IsNaN(page)
        \/ limit # Absent /\ IsNaN(limit)
     THEN qres' = [op |-> "getConversation", sender |-> sender,
                   receiver |-> receiver, result |-> <<>>,
                   resp |-> AppError("numerical values", 400)]
     ELSE LET p == IF page = Absent THEN 1 ELSE ToNumber[page]
              l == IF limit = Absent THEN 10 ELSE ToNumber[limit]
          IN \E q \in SortedBySentDesc(ConversationFilter(sender, receiver)) :
               LET conversation == SkipLimit(q, (p - 1) * l, l)
               IN qres' = [op |-> "getConversation", sender |-> sender,
                           receiver |-> receiver,
                           result |-> IF Len(conversation) = 0 /\ p > 1
                                      THEN <<>> ELSE conversation,
                           resp |-> IF Len(conversation) = 0 /\ p > 1
                                    THEN AppError("page doesn't exist", 404)
                                    ELSE Success(200)]
  /\ UNCHANGED <<messages, now, mreq, sends>>
  /\ UNCHANGED notMsgVars

\* $match: {$or: [{sender: userObjectId}, {receiver: userObjectId}]}
Matched(id) ==
  {i \in MessageIds : messages[i].sender = id \/ messages[i].receiver = id}

MaxSent(ids) ==
  CHOOSE s \in {messages[i].sent : i \in ids} :
    \A i \in ids : messages[i].sent <= s

\* $group of the sorted documents q with _id {sender, receiver} = key:
\* $first takes the fields of the first document of the group (doc stands
\* for its content, files and read), $max the greatest sent
Group(q, key) ==
  LET ks == {k \in 1..Len(q) :
               <<messages[q[k]].sender, messages[q[k]].receiver>> = key}
  IN [sender |-> key[1], receiver |-> key[2],
      doc |-> q[MinOf(ks)],
      sent |-> MaxSent({q[k] : k \in ks})]

Groups(q) ==
  {Group(q, key) :
     key \in {<<messages[q[k]].sender, messages[q[k]].receiver>> :
                k \in 1..Len(q)}}

\* the closing $sort: {sent: -1} of the groups
RECURSIVE SortedGroups(_)
SortedGroups(gs) ==
  IF gs = {} THEN {<<>>}
  ELSE UNION {{<<g>> \o o : o \in SortedGroups(gs \ {g})} :
              g \in {h \in gs : \A e \in gs : e.sent <= h.sent}}

\* the group of the same direction instead of the opposite one
OtherIndexSameDirection(acc, message) ==
  LET hits == {k \in 1..Len(acc) :
                 /\ acc[k].sender = message.sender
                 /\ acc[k].receiver = message.receiver
                 /\ acc[k] # message}
  IN IF hits = {} THEN 0 ELSE MinOf(hits)
\* acc.findIndex(el => otherSender === receiver && otherReceiver === sender)
\* (0 for -1)
OtherIndex(acc, message) ==
  LET hits == {k \in 1..Len(acc) :
                 /\ acc[k].sender = message.receiver
                 /\ acc[k].receiver = message.sender}
  IN IF hits = {} THEN 0 ELSE MinOf(hits)

\* queryMessages.reduce((acc, message) => .., [])
RECURSIVE GetLastMessagesBetweenTwoUsers(_)
GetLastMessagesBetweenTwoUsers(queryMessages) ==
  IF queryMessages = <<>> THEN <<>>
  ELSE LET n == Len(queryMessages)
           acc == GetLastMessagesBetweenTwoUsers(SubSeq(queryMessages, 1, n - 1))
           message == queryMessages[n]
           otherIndex == OtherIndex(acc, message)
       IN IF otherIndex = 0 THEN Append(acc, message)
          ELSE IF acc[otherIndex].sent < message.sent
               THEN [acc EXCEPT ![otherIndex] = message]
               ELSE acc

\* GET /messages/last by the user id
GetLastMessages(id) ==
  /\ qres = NoQuery
  /\ \E q \in SortedBySentDesc(Matched(id)) :
       \E queryMessages \in SortedGroups(Groups(q)) :
         qres' = [op |-> "getLastMessages", user |-> id,
                  result |-> GetLastMessagesBetweenTwoUsers(queryMessages),
                  resp |-> Success(200)]
  /\ UNCHANGED <<messages, now, mreq, sends>>
  /\ UNCHANGED notMsgVars

\* the answer has left with res.status(..).json(..) or through next(..)
QueryAnswered ==
  /\ qres # NoQuery
  /\ qres' = NoQuery
  /\ UNCHANGED <<messages, now, mreq, sends>>
  /\ UNCHANGED notMsgVars

NextQuery ==
  \/ \E sender \in MsgUsers, receiver \in MsgUsers,
        page \in PageValues, limit \in LimitValues :
       GetConversation(sender, receiver, page, limit)
  \/ \E id \in MsgUsers : GetLastMessages(id)
  \/ QueryAnswered

SpecQuery == InitQuery /\ [][NextQuery]_vars

\* ======================================================== list queries
\* getAll of handlers/handlerFactory with APIFeatures, as getAllUsers calls
\* it on the users.  The users are listed in the order of their creation
\* (createdAt grows with it); the collection does not change while a list
\* is computed.
MaxDocs == 12
MaxHidden == 1

\* a user document: its role and the soft-delete flag
DocKinds ==
  { [role |-> "student", isDeleted |-> FALSE],
    [role |-> "admin", isDeleted |-> FALSE],
    [role |-> "student", isDeleted |-> TRUE] }

DocIds == 1..Len(docs)

\* the documents no list of users shows: admins and deleted accounts
Hidden(d) == d.role = "admin" \/ d.isDeleted

\* a user is created (and, for the third kind, has deleted the account)
CreateUser(kind) ==
  /\ pres = NoQuery
  /\ Len(docs) < MaxDocs
  /\ Hidden(kind) => Cardinality({i \in DocIds : Hidden(docs[i])}) < MaxHidden
  /\ docs' = Append(docs, kind)
  /\ UNCHANGED pres
  /\ UNCHANGED notPageVars

\* req.query of a list request: page, limit and a filter on the role
PageParams == {Absent, "0", "1", "2"}
LimitParams == {Absent, "0", "1", "10"}
RoleParams == {Absent, "admin"}
\* req.query._id: missing, or a text that is no ObjectId
IdParams == {Absent, "x"}

\* the query is run with a filter that cannot be cast to the schema: the
\* awaited query rejects with a CastError
CastFails(id) == id = "x"

\* this.page || this.limit: a number that is neither NaN nor 0
Truthy(value) == ~IsNaN(value) /\ ToNumber[value] # 0

\* a default of 1 whatever the parameter
OrDefaultOne(value, default) ==
  IF Truthy(value) THEN ToNumber[value] ELSE 1
\* this.page || 1, this.limit || 10
OrDefault(value, default) ==
  IF Truthy(value) THEN ToNumber[value] ELSE default

\* the two filters joined by $or instead of $and
MatchingEither(requester, role) ==
  {i \in DocIds :
     /\ \/ role # Absent /\ docs[i].role = role
        \/ docs[i].role # "admin" /\ i # requester
     /\ ~docs[i].isDeleted}
\* find({$and: [{...this.queryObj}, {...filter}]}) with the filter of
\* getAllUsers {role: {$ne: 'admin'}, _id: {$ne: req.user.id}} and the
\* pre-find hook {isDeleted: {$ne: true}}
Matching(requester, role) ==
  {i \in DocIds :
     /\ role = Absent \/ docs[i].role = role
     /\ docs[i].role # "admin"
     /\ i # requester
     /\ ~docs[i].isDeleted}

\* .sort('-createdAt'): the latest document first
RECURSIVE SortedByCreatedAtDesc(_)
SortedByCreatedAtDesc(ids) ==
  IF ids = {} THEN <<>>
  ELSE LET latest == CHOOSE i \in ids : \A j \in ids : j <= i
       IN <<latest>> \o SortedByCreatedAtDesc(ids \ {latest})

\* a count that leaves the requester's own document out
CountDocumentsOthers == Len(docs) - 1
\* this.dbModel.countDocuments()
CountDocuments == Len(docs)

\* GET /users by the user requester: build, sort, paginate, run the query
GetAllUsers(requester, role, id, page, limit) ==
  /\ pres = NoQuery
  /\ requester \in DocIds
  /\ ~docs[requester].isDeleted
  /\ LET found == SortedByCreatedAtDesc(Matching(requester, role))
         skip == (OrDefault(page, 1) - 1) * OrDefault(limit, 10)
         answer(resp, result) ==
           [op |-> "getAllUsers", requester |-> requester, role |-> role,
            id |-> id, page |-> page, limit |-> limit, resp |-> resp,
            result |-> result]
     IN pres' =
          IF (Truthy(page) \/ Truthy(limit)) /\ CountDocuments <= skip
          THEN answer(AppError("This page doesn't exist.", 404), <<>>)
          ELSE IF CastFails(id)
          THEN \* catch (err) without a matching message: nothing is sent
               answer(NoResp, <<>>)
          ELSE IF Truthy(page) \/ Truthy(limit)
          THEN answer(Success(200),
                      SkipLimit(found, skip, OrDefault(limit, 10)))
          ELSE answer(Success(200), found)
  /\ UNCHANGED docs
  /\ UNCHANGED notPageVars

\* the handler has returned and its answer, if any, has left
ListAnswered ==
  /\ pres # NoQuery
  /\ pres' = NoQuery
  /\ UNCHANGED docs
  /\ UNCHANGED notPageVars

\* the users who send the list requests: the two oldest ones
Requesters == {1, 2}

NextPage ==
  \/ \E kind \in DocKinds : CreateUser(kind)
  \/ \E requester \in Requesters, role \in RoleParams, id \in IdParams,
        page \in PageParams, limit \in LimitParams :
       GetAllUsers(requester, role, id, page, limit)
  \/ ListAnswered

SpecPage == Init /\ [][NextPage]_vars

\* ================================================================ events
\* createEvent, updateEvent, acceptInvitation and declineInvitation of
\* controllers/eventController.  The users exist and none is an admin; the
\* dates of a request are valid.  A handler runs up to its first read of
\* the event when the request arrives; the write is a later step.
MaxGuests == 2

EvtUsers == {"t1", "s1", "s2"}

\* the ids as a request body writes them: the hexadecimal text of an
\* ObjectId may be written in upper case
Spellings == EvtUsers \cup {"S1"}

\* the cast of a text to the ObjectId of the schema
CastObjectId(id) == IF id = "S1" THEN "s1" ELSE id

CastAll(arr) == [k \in 1..Len(arr) |-> CastObjectId(arr[k])]

\* req.body.guests, req.body.attendees: a list of ids, or missing
Missing == <<Absent>>
IdLists == UNION {[1..n -> Spellings] : n \in 0..MaxGuests}

\* the bodies of updateEvent: both lists with MaxGuests ids together, or
\* neither list
UpdateBodies ==
  {b \in IdLists \X IdLists : Len(b[1]) + Len(b[2]) <= MaxGuests}
  \cup {<<Missing, Missing>>}

\* Array.prototype.indexOf (0 for -1) and includes
IndexOf(arr, el) ==
  IF \E k \in 1..Len(arr) : arr[k] = el
  THEN MinOf({k \in 1..Len(arr) : arr[k] = el}) ELSE 0

Includes(arr, el) == \E k \in 1..Len(arr) : arr[k] = el

\* Array.prototype.filter: the elements at the positions keep, in order
RECURSIVE Filter(_, _)
Filter(arr, keep) ==
  IF arr = <<>> THEN <<>>
  ELSE LET n == Len(arr)
           front == Filter(SubSeq(arr, 1, n - 1), keep)
       IN IF n \in keep THEN Append(front, arr[n]) ELSE front

\* Array.prototype.splice(index, 1)
Splice(arr, index) ==
  SubSeq(arr, 1, index - 1) \o SubSeq(arr, index + 1, Len(arr))

\* req.body.guests?.filter((element, index) =>
\*   req.body.guests.indexOf(element) === index) || []
CreateGuests(guestArray) ==
  IF guestArray = Missing THEN <<>>
  ELSE Filter(guestArray,
              {k \in 1..Len(guestArray) : IndexOf(guestArray, guestArray[k]) = k})

\* guestArray?.filter((element, index) =>
\*   guestArray.indexOf(element) === index &&
\*   !attendeesArray?.includes(element)) || []
UpdateGuests(guestArray, attendeesArray) ==
  IF guestArray = Missing THEN <<>>
  ELSE Filter(guestArray,
              {k \in 1..Len(guestArray) :
                 /\ IndexOf(guestArray, guestArray[k]) = k
                 /\ ~(attendeesArray # Missing
                      /\ Includes(attendeesArray, guestArray[k]))})

\* validateGuestOrAttendees: the users are found by their cast ids; the
\* organizer among them is refused
ValidateGuestOrAttendees(ids, organizer) ==
  ~Includes(CastAll(ids), organizer)

EvtFree(r) == ereq[r].pc = "idle"

\* an answer is on its way out
EvtAnswering == \E r \in Slots : ereq[r].pc = "done"

\* a request is taken by the first slot unless that one is busy
EvtArrive(r) ==
  /\ ~EvtAnswering
  /\ EvtFree(r)
  /\ r = FirstSlot \/ ~EvtFree(FirstSlot)

\* the handler of slot r ends with the answer resp
EvtRespond(r, op, user, e, resp) ==
  ereq' = [ereq EXCEPT ![r] =
     [IdleEvtReq EXCEPT !.op = op, !.pc = "done", !.user = user,
                        !.event = e, !.resp = resp]]

\* the handler of slot r goes on to findByIdAndUpdate with the two lists
EvtToUpdate(r, op, user, e, guests, attendees) ==
  ereq' = [ereq EXCEPT ![r] =
     [IdleEvtReq EXCEPT !.op = op, !.pc = "update", !.user = user,
                        !.event = e, !.guests = guests,
                        !.attendees = attendees]]

\* POST /events by organizer: Event.create({.., organizer, guests})
CreateEvent(r, e, organizer, guestArray) ==
  /\ EvtArrive(r)
  /\ events[e] = NoEvent
  /\ LET guests == CreateGuests(guestArray)
     IN IF ~ValidateGuestOrAttendees(guests, organizer)
        THEN /\ EvtRespond(r, "createEvent", organizer, e,
                           AppError("can't be invited", 400))
             /\ UNCHANGED events
        ELSE /\ events' = [events EXCEPT ![e] =
                  [organizer |-> organizer, guests |-> CastAll(guests),
                   attendees |-> <<>>]]
             /\ EvtRespond(r, "createEvent", organizer, e, Success(201))
  /\ UNCHANGED notEvtVars

\* PATCH /events/:eventId by user, up to the checks that follow
\* Event.findOne({_id, $or: [{organizer}, {guests}, {attendees}]})
UpdateEventFind(r, e, user, guestArray, attendeesArray) ==
  /\ EvtArrive(r)
  /\ events[e].organizer # user => guestArray = Missing
  /\ LET guests == UpdateGuests(guestArray, attendeesArray)
         attendees == CreateGuests(attendeesArray)
         event == events[e]
     IN IF \/ event = NoEvent
           \/ /\ event.organizer # user
              /\ ~Includes(event.guests, user)
              /\ ~Includes(event.attendees, user)
        THEN EvtRespond(r, "updateEvent", user, e,
                        AppError("No event found", 404))
        ELSE IF event.organizer # user
        THEN EvtRespond(r, "updateEvent", user, e,
                        AppError("not the organizer", 403))
        ELSE IF \/ ~ValidateGuestOrAttendees(guests, user)
                \/ ~ValidateGuestOrAttendees(attendees, user)
        THEN EvtRespond(r, "updateEvent", user, e,
                        AppError("event you organize", 400))
        ELSE ereq' = [ereq EXCEPT ![r] =
               [IdleEvtReq EXCEPT
                  !.op = "updateEvent", !.pc = "update", !.user = user,
                  !.event = e, !.guests = CastAll(guests),
                  !.attendees = CastAll(attendees),
                  !.listless = (guestArray = Missing
                                /\ attendeesArray = Missing)]]
  /\ UNCHANGED events
  /\ UNCHANGED notEvtVars

\* PATCH /events/:eventId/accept by user, up to the checks that follow
\* Event.findById
AcceptInvitationFind(r, e, user) ==
  /\ EvtArrive(r)
  /\ LET event == events[e]
     IN IF event = NoEvent
        THEN EvtRespond(r, "acceptInvitation", user, e,
                        AppError("No event found", 404))
        ELSE IF event.organizer = user
        THEN EvtRespond(r, "acceptInvitation", user, e,
                        AppError("You're the organizer", 400))
        ELSE IF IndexOf(event.guests, user) = 0
        THEN IF IndexOf(event.attendees, user) = 0
             THEN EvtRespond(r, "acceptInvitation", user, e,
                             AppError("You were not invited", 403))
             ELSE EvtRespond(r, "acceptInvitation", user, e,
                             AppError("You already accepted", 400))
        ELSE EvtToUpdate(r, "acceptInvitation", user, e,
                         Splice(event.guests, IndexOf(event.guests, user)),
                         Append(event.attendees, user))
  /\ UNCHANGED events
  /\ UNCHANGED notEvtVars

\* PATCH /events/:eventId/refuse by user, up to the checks that follow
\* Event.findById
DeclineInvitationFind(r, e, user) ==
  /\ EvtArrive(r)
  /\ LET event == events[e]
     IN IF event = NoEvent
        THEN EvtRespond(r, "declineInvitation", user, e,
                        AppError("No event found", 404))
        ELSE IF event.organizer = user
        THEN EvtRespond(r, "declineInvitation", user, e,
                        AppError("You're the organizer", 400))
        ELSE IF IndexOf(event.guests, user) = 0
        THEN IF IndexOf(event.attendees, user) = 0
             THEN EvtRespond(r, "declineInvitation", user, e,
                             AppError("not a participant", 403))
             ELSE EvtToUpdate(r, "declineInvitation", user, e, event.guests,
                              Splice(event.attendees,
                                     IndexOf(event.attendees, user)))
        ELSE EvtToUpdate(r, "declineInvitation", user, e,
                         Splice(event.guests, IndexOf(event.guests, user)),
                         event.attendees)
  /\ UNCHANGED events
  /\ UNCHANGED notEvtVars

\* await Event.findByIdAndUpdate(id, {guests, attendees}), then
\* res.status(200).json(..)
EventUpdate(r) ==
  /\ ~EvtAnswering
  /\ ereq[r].pc = "update"
  /\ events' = [events EXCEPT ![ereq[r].event].guests = ereq[r].guests,
                              ![ereq[r].event].attendees = ereq[r].attendees]
  /\ EvtRespond(r, ereq[r].op, ereq[r].user, ereq[r].event, Success(200))
  /\ UNCHANGED notEvtVars

\* the answer of slot r has left
EvtAnswered(r) ==
  /\ ereq[r].pc = "done"
  /\ ereq' = [ereq EXCEPT ![r] = IdleEvtReq]
  /\ UNCHANGED events
  /\ UNCHANGED notEvtVars

\* a request arrives
EvtRequest ==
  \/ \E r \in Slots, e \in Events, organizer \in EvtUsers,
        guestArray \in IdLists \cup {Missing} :
       CreateEvent(r, e, organizer, guestArray)
  \/ \E r \in Slots, e \in Events, user \in EvtUsers, body \in UpdateBodies :
       UpdateEventFind(r, e, user, body[1], body[2])
  \/ \E r \in Slots, e \in Events, user \in EvtUsers :
       AcceptInvitationFind(r, e, user)
  \/ \E r \in Slots, e \in Events, user \in EvtUsers :
       DeclineInvitationFind(r, e, user)

NextEvt ==
  \/ EvtRequest
  \/ \E r \in Slots : EventUpdate(r)
  \/ \E r \in Slots : EvtAnswered(r)

SpecEvt == Init /\ [][NextEvt]_vars

\* the requests are handled one after the other
EvtRequestAlone ==
  /\ \A r \in Slots : EvtFree(r)
  /\ EvtRequest

NextEvtSeq ==
  \/ EvtRequestAlone
  \/ \E r \in Slots : EventUpdate(r)
  \/ \E r \in Slots : EvtAnswered(r)

SpecEvtSeq == Init /\ [][NextEvtSeq]_vars

\* an event is created and its guests answer, two requests at a time
NextInv ==
  \/ \E r \in Slots, e \in Events, organizer \in EvtUsers,
        guestArray \in IdLists \cup {Missing} :
       CreateEvent(r, e, organizer, guestArray)
  \/ \E r \in Slots, e \in Events, user \in EvtUsers :
       AcceptInvitationFind(r, e, user)
  \/ \E r \in Slots, e \in Events, user \in EvtUsers :
       DeclineInvitationFind(r, e, user)
  \/ \E r \in Slots : EventUpdate(r)
  \/ \E r \in Slots : EvtAnswered(r)

SpecInv == Init /\ [][NextInv]_vars

\* ================================================================== tasks
\* createTask, createTaskStudent, completeTask and validateTask of
\* controllers/taskController.  A task is never deleted.  The supervisor of
\* a student is set by the acceptance of a teaching demand and read here.
MaxTasks == 2

TaskIds == 1..Len(tasks)
\* the ids a request can name: the tasks and an id no task has
TaskParams == 1..(Len(tasks) + 1)

\* taskSchema: done and validated default to false, no validator
NewTask(performer) ==
  [performer |-> performer, done |-> FALSE, validated |-> FALSE,
   validator |-> Null]

\* the stores in which a teaching demand of student p[1] was accepted by
\* teacher p[2], and the store without any demand
Supervisions == {<<Null, Null>>} \cup (Students \X Teachers)

InitTask ==
  /\ \E p \in Supervisions :
       /\ demands = IF p[1] = Null THEN <<>>
                    ELSE <<[sender |-> p[1], receiver |-> p[2],
                            accepted |-> TRUE, cancelled |-> FALSE]>>
       /\ supervisor = [s \in Students |-> IF s = p[1] THEN p[2] ELSE Null]
       /\ supervised = [t \in Teachers |->
                          IF t = p[2] THEN <<p[1]>> ELSE <<>>]
  /\ req = [r \in Slots |-> IdleReq]
  /\ started = 0
  /\ MessagesEmpty
  /\ PageEmpty
  /\ Rest

\* student.supervisor.valueOf() !== teacher, on the document that
\* User.findById(...).select('supervisor') returns: a student without
\* supervisor has no such field and valueOf is called on undefined.
SupervisorCheck(student, teacher) ==
  IF supervisor[student] = Null THEN "throws"
  ELSE IF supervisor[student] # teacher THEN "forbidden"
  ELSE "ok"

NotCompletedNever(task) == FALSE

\* if (!task.done)
NotCompleted(task) == ~task.done

TaskFree(r) == treq[r].pc = "idle"
\* an answer is on its way out
TaskAnswering == \E r \in Slots : treq[r].pc = "done"

TaskArrive(r) ==
  /\ ~TaskAnswering
  /\ TaskFree(r)
  /\ r = FirstSlot \/ ~TaskFree(FirstSlot)

TaskRespond(r, op, user, id, resp) ==
  treq' = [treq EXCEPT ![r] =
    [IdleTaskReq EXCEPT !.op = op, !.pc = "done", !.user = user,
                        !.task = id, !.resp = resp]]

TaskGoto(r, op, user, id, done, pc) ==
  treq' = [treq EXCEPT ![r] =
    [IdleTaskReq EXCEPT !.op = op, !.pc = pc, !.user = user, !.task = id,
                        !.done = done]]

\* POST /tasks, restrictTo('student')
CreateTask(r, performer) ==
  /\ TaskArrive(r)
  /\ Len(tasks) < MaxTasks
  /\ tasks' = Append(tasks, NewTask(performer))
  /\ TaskRespond(r, "createTask", performer, Len(tasks) + 1, Success(201))
  /\ UNCHANGED notTaskVars

\* POST /tasks/students/:studentId, restrictTo('teacher').  The supervisor
\* read before the insertion does not change while a task request runs.
CreateTaskStudent(r, teacher, student) ==
  /\ TaskArrive(r)
  /\ LET check == SupervisorCheck(student, teacher)
     IN IF check = "throws"
        THEN /\ TaskRespond(r, "createTaskStudent", teacher, 0, InternalError)
             /\ UNCHANGED tasks
        ELSE IF check = "forbidden"
        THEN /\ TaskRespond(r, "createTaskStudent", teacher, 0,
                  AppError("You are not the supervisor of this student.", 403))
             /\ UNCHANGED tasks
        ELSE /\ Len(tasks) < MaxTasks
             /\ tasks' = Append(tasks, NewTask(student))
             /\ TaskRespond(r, "createTaskStudent", teacher, Len(tasks) + 1,
                            Success(201))
  /\ UNCHANGED notTaskVars

\* PATCH /tasks/:taskId/complete, restrictTo('student'): up to the update
CompleteTaskFind(r, performer, id) ==
  /\ TaskArrive(r)
  /\ IF id \notin TaskIds
     THEN TaskRespond(r, "completeTask", performer, id,
                      AppError("No task found with that ID.", 404))
     ELSE IF tasks[id].performer # performer
     THEN TaskRespond(r, "completeTask", performer, id,
                      AppError("You are not the performer of the task.", 403))
     ELSE TaskGoto(r, "completeTask", performer, id, tasks[id].done, "update")
  /\ UNCHANGED tasks
  /\ UNCHANGED notTaskVars

\* Task.findByIdAndUpdate(id, { done: true })
CompleteTaskUpdate(r) ==
  /\ ~TaskAnswering
  /\ treq[r].op = "completeTask" /\ treq[r].pc = "update"
  /\ tasks' = [tasks EXCEPT ![treq[r].task].done = TRUE]
  /\ treq' = [treq EXCEPT ![r].pc = "done", ![r].resp = Success(200)]
  /\ UNCHANGED notTaskVars

\* PATCH /tasks/:taskId/validate, restrictTo('teacher'): Task.findById
ValidateTaskFind(r, teacher, id) ==
  /\ TaskArrive(r)
  /\ IF id \notin TaskIds
     THEN TaskRespond(r, "validateTask", teacher, id,
                      AppError("No task found with that ID.", 404))
     ELSE TaskGoto(r, "validateTask", teacher, id, tasks[id].done,
                   "findStudent")
  /\ UNCHANGED tasks
  /\ UNCHANGED notTaskVars

\* User.findById(task.performer).select('supervisor') and the two checks,
\* on the task as it was read
ValidateTaskFindStudent(r) ==
  /\ ~TaskAnswering
  /\ treq[r].op = "validateTask" /\ treq[r].pc = "findStudent"
  /\ LET task == [tasks[treq[r].task] EXCEPT !.done = treq[r].done]
         check == SupervisorCheck(task.performer, treq[r].user)
     IN treq' = [treq EXCEPT ![r] =
          IF check = "throws"
          THEN [@ EXCEPT !.pc = "done", !.resp = InternalError]
          ELSE IF check = "forbidden"
          THEN [@ EXCEPT !.pc = "done", !.resp = AppError(
                 "You are not the supervisor of the student performing the task.",
                 403)]
          ELSE IF NotCompleted(task)
          THEN [@ EXCEPT !.pc = "done", !.resp = AppError(
                 "You can't validate a non-completed task.", 400)]
          ELSE [@ EXCEPT !.pc = "update"]]
  /\ UNCHANGED tasks
  /\ UNCHANGED notTaskVars

\* Task.findByIdAndUpdate(id, { validated: true, validator: teacher })
ValidateTaskUpdate(r) ==
  /\ ~TaskAnswering
  /\ treq[r].op = "validateTask" /\ treq[r].pc = "update"
  /\ tasks' = [tasks EXCEPT ![treq[r].task].validated = TRUE,
                            ![treq[r].task].validator = treq[r].user]
  /\ treq' = [treq EXCEPT ![r].pc = "done", ![r].resp = Success(200)]
  /\ UNCHANGED notTaskVars

\* the answer has left
TaskAnswered(r) ==
  /\ treq[r].pc = "done"
  /\ treq' = [treq EXCEPT ![r] = IdleTaskReq]
  /\ UNCHANGED tasks
  /\ UNCHANGED notTaskVars

NextTask ==
  \/ \E r \in Slots, performer \in Students : CreateTask(r, performer)
  \/ \E r \in Slots, teacher \in Teachers, student \in Students :
       CreateTaskStudent(r, teacher, student)
  \/ \E r \in Slots, performer \in Students, id \in TaskParams :
       CompleteTaskFind(r, performer, id)
  \/ \E r \in Slots : CompleteTaskUpdate(r)
  \/ \E r \in Slots, teacher \in Teachers, id \in TaskParams :
       ValidateTaskFind(r, teacher, id)
  \/ \E r \in Slots : ValidateTaskFindStudent(r)
  \/ \E r \in Slots : ValidateTaskUpdate(r)
  \/ \E r \in Slots : TaskAnswered(r)

SpecTask == InitTask /\ [][NextTask]_vars

\* =============================================================== contacts
\* sendInvitation, addContact and deleteContact of
\* controllers/userController, the requests handled one after the other:
\* the handler reads both users, then writes the other user, then the
\* requester.  The users are students and teachers, none deleted.

\* arr.filter(storedId => storedId.valueOf() !== id)
Without(arr, id) == Filter(arr, {k \in 1..Len(arr) : arr[k] # id})

\* a push without the includes test
PushAlways(arr, id) == Append(arr, id)
\* if (!arr.includes(id)) arr.push(id)
PushIfNew(arr, id) == IF Includes(arr, id) THEN arr ELSE Append(arr, id)

\* invitations waiting for an answer at the same time
MaxInvitations == 1

PendingInvitations ==
  Len(invitations["s1"]) + Len(invitations["s2"]) + Len(invitations["t1"])

ConIdle == creq.pc = "idle"

ConRespond(op, id, contactId, resp) ==
  creq' = [IdleConReq EXCEPT !.op = op, !.pc = "done", !.user = id,
                             !.contact = contactId, !.resp = resp]

\* PATCH /users/contacts/invitations/:userId
SendInvitation(id, userId) ==
  /\ ConIdle
  /\ IF userId = id
     THEN /\ ConRespond("sendInvitation", id, userId, AppError(
               "You can't send a contact invitation to yourself.", 400))
          /\ UNCHANGED invitations
     ELSE IF Includes(invitations[userId], id)
     THEN /\ ConRespond("sendInvitation", id, userId, Success(200))
          /\ UNCHANGED invitations
     ELSE /\ PendingInvitations < MaxInvitations
          /\ invitations' =
               [invitations EXCEPT ![userId] = Append(@, id)]
          /\ ConRespond("sendInvitation", id, userId, Success(200))
  /\ UNCHANGED contacts
  /\ UNCHANGED notConVars

\* PATCH /users/contacts/:contactId, up to the first update
AddContactFind(id, contactId) ==
  /\ ConIdle
  /\ IF contactId = id
     THEN ConRespond("addContact", id, contactId, AppError(
            "You can't add yourself to your contact list.", 400))
     ELSE IF ~Includes(invitations[id], contactId)
     THEN ConRespond("addContact", id, contactId, AppError(
            "The user you want to add hasn't send you a contact request.",
            400))
     ELSE creq' = [IdleConReq EXCEPT
            !.op = "addContact", !.pc = "writeOther", !.user = id,
            !.contact = contactId,
            !.contacts = PushIfNew(contacts[id], contactId),
            !.otherContacts = PushIfNew(contacts[contactId], id),
            !.invitations = Without(invitations[id], contactId)]
  /\ UNCHANGED <<contacts, invitations>>
  /\ UNCHANGED notConVars

\* the two lists deleteContact writes: emptied unless the requester has
\* the other user as a contact
UpdatedContacts(own, other, id, otherId) ==
  IF Includes(own, otherId)
  THEN <<Without(own, otherId), Without(other, id)>>
  ELSE <<<<>>, <<>>>>

\* DELETE /users/contacts/:contactId, up to the first update
DeleteContactFind(id, contactId) ==
  /\ ConIdle
  /\ LET updated ==
           UpdatedContacts(contacts[id], contacts[contactId], id, contactId)
     IN creq' = [IdleConReq EXCEPT
          !.op = "deleteContact", !.pc = "writeOther", !.user = id,
          !.contact = contactId, !.contacts = updated[1],
          !.otherContacts = updated[2]]
  /\ UNCHANGED <<contacts, invitations>>
  /\ UNCHANGED notConVars

\* User.findByIdAndUpdate(otherId, { contacts: ... })
ContactWriteOther ==
  /\ creq.pc = "writeOther"
  /\ contacts' = [contacts EXCEPT ![creq.contact] = creq.otherContacts]
  /\ creq' = [creq EXCEPT !.pc = "writeSelf"]
  /\ UNCHANGED invitations
  /\ UNCHANGED notConVars

\* User.findByIdAndUpdate(id, { contacts: ... [, invitations: ...] })
ContactWriteSelf ==
  /\ creq.pc = "writeSelf"
  /\ contacts' = [contacts EXCEPT ![creq.user] = creq.contacts]
  /\ invitations' =
       IF creq.op = "addContact"
       THEN [invitations EXCEPT ![creq.user] = creq.invitations]
       ELSE invitations
  /\ creq' = [creq EXCEPT !.pc = "done", !.resp = Success(200)]
  /\ UNCHANGED notConVars

\* the answer has left
ContactAnswered ==
  /\ creq.pc = "done"
  /\ creq' = IdleConReq
  /\ UNCHANGED <<contacts, invitations>>
  /\ UNCHANGED notConVars

NextCon ==
  \/ \E id \in ConUsers, userId \in ConUsers : SendInvitation(id, userId)
  \/ \E id \in ConUsers, contactId \in ConUsers : AddContactFind(id, contactId)
  \/ \E id \in ConUsers, contactId \in ConUsers :
       DeleteContactFind(id, contactId)
  \/ ContactWriteOther
  \/ ContactWriteSelf
  \/ ContactAnswered

SpecCon == Init /\ [][NextCon]_vars

\* ======================================================= account deletion
\* deleteMe of controllers/userController, the timer it starts, and the
\* lookup of a user by queryUser.  accounts[u] is "active", "deleted"
\* (isDeleted = true) or "gone" (the document is removed); timeouts[u] is
\* Absent while TIMEOUTS has no key u, "Timeout" while it holds a timer and
\* "undefined" after the callback cleared it.

\* a timer is known by the user and the request that started it
Timers == DelUsers \X Slots

LookupFiltered(u, disableMiddlewares) ==
  IF accounts[u] = "active" THEN u ELSE Null

\* the document a find... query on the id of u gives: userSchema.pre(/^find/)
\* adds { isDeleted: { $ne: true } } unless options.disableMiddlewares
Lookup(u, disableMiddlewares) ==
  IF accounts[u] = "gone" THEN Null
  ELSE IF disableMiddlewares \/ accounts[u] = "active" THEN u
  ELSE Null

DelFree(r) == dreq[r].pc = "idle"
DelAnswering == \E r \in Slots : dreq[r].pc = "done"

DelArrive(r) ==
  /\ ~DelAnswering
  /\ DelFree(r)
  /\ r = FirstSlot \/ ~DelFree(FirstSlot)

\* GET /users/:id: queryOne(User, { role: { $ne: 'admin' } }), then getUser
QueryUser(r, u) ==
  /\ DelArrive(r)
  /\ dreq' = [dreq EXCEPT ![r] =
       [IdleDelReq EXCEPT
          !.op = "queryUser", !.pc = "done", !.user = u,
          !.resp = IF Lookup(u, FALSE) = Null
                   THEN AppError("No user found with that ID.", 404)
                   ELSE Success(200)]]
  /\ UNCHANGED <<accounts, timeouts, timers>>
  /\ UNCHANGED notDelVars

\* DELETE /users/me: protect and queryMe have found the user
DeleteMeStart(r, u) ==
  /\ DelArrive(r)
  /\ Lookup(u, FALSE) # Null
  /\ dreq' = [dreq EXCEPT ![r] =
       [IdleDelReq EXCEPT !.op = "deleteMe", !.pc = "update", !.user = u]]
  /\ UNCHANGED <<accounts, timeouts, timers>>
  /\ UNCHANGED notDelVars

\* User.findByIdAndUpdate(id, { isDeleted: true, deletedAt: Date.now() })
DeleteMeUpdate(r) ==
  /\ dreq[r].op = "deleteMe" /\ dreq[r].pc = "update"
  /\ LET found == Lookup(dreq[r].user, FALSE)
     IN /\ accounts' = IF found = Null THEN accounts
                       ELSE [accounts EXCEPT ![found] = "deleted"]
        /\ dreq' = [dreq EXCEPT ![r].pc = "email", ![r].updatedUser = found]
  /\ UNCHANGED <<timeouts, timers>>
  /\ UNCHANGED notDelVars

\* new Email(user, '').sendAccountDelete() returns
SendAccountDelete(r) ==
  /\ dreq[r].op = "deleteMe" /\ dreq[r].pc = "email"
  /\ dreq' = [dreq EXCEPT ![r].pc = "setTimeout"]
  /\ UNCHANGED <<accounts, timeouts, timers>>
  /\ UNCHANGED notDelVars

\* setTimeout(...), TIMEOUTS[id] = deleteTimeout and the answer 204
DeleteMeSetTimeout(r) ==
  /\ dreq[r].op = "deleteMe" /\ dreq[r].pc = "setTimeout"
  /\ timers' = timers \cup {[user |-> dreq[r].user, slot |-> r,
                             pc |-> "pending"]}
  /\ timeouts' = [timeouts EXCEPT ![dreq[r].user] = "Timeout"]
  /\ dreq' = [dreq EXCEPT ![r].pc = "done", ![r].resp = Success(204)]
  /\ UNCHANGED accounts
  /\ UNCHANGED notDelVars

\* the answer has left
DelAnswered(r) ==
  /\ dreq[r].pc = "done"
  /\ dreq' = [dreq EXCEPT ![r] = IdleDelReq]
  /\ UNCHANGED <<accounts, timeouts, timers>>
  /\ UNCHANGED notDelVars

\* the timer expires:
\* User.findByIdAndDelete(id, { disableMiddlewares: true })
TimerFires(t) ==
  /\ [user |-> t[1], slot |-> t[2], pc |-> "pending"] \in timers
  /\ LET found == Lookup(t[1], TRUE)
     IN accounts' = IF found = Null THEN accounts
                    ELSE [accounts EXCEPT ![found] = "gone"]
  /\ timers' = (timers \ {[user |-> t[1], slot |-> t[2], pc |-> "pending"]})
                 \cup {[user |-> t[1], slot |-> t[2], pc |-> "deleted"]}
  /\ UNCHANGED <<timeouts, dreq>>
  /\ UNCHANGED notDelVars

\* TIMEOUTS[id] = undefined, after the deletion
TimerClears(t) ==
  /\ [user |-> t[1], slot |-> t[2], pc |-> "deleted"] \in timers
  /\ timeouts' = [timeouts EXCEPT ![t[1]] = "undefined"]
  /\ timers' = timers \ {[user |-> t[1], slot |-> t[2], pc |-> "deleted"]}
  /\ UNCHANGED <<accounts, dreq>>
  /\ UNCHANGED notDelVars

NextDel ==
  \/ \E r \in Slots, u \in DelUsers : QueryUser(r, u)
  \/ \E r \in Slots, u \in DelUsers : DeleteMeStart(r, u)
  \/ \E r \in Slots : DeleteMeUpdate(r)
  \/ \E r \in Slots : SendAccountDelete(r)
  \/ \E r \in Slots : DeleteMeSetTimeout(r)
  \/ \E r \in Slots : DelAnswered(r)
  \/ \E t \in Timers : TimerFires(t)
  \/ \E t \in Timers : TimerClears(t)

SpecDel == Init /\ [][NextDel]_vars

\* a request that has started goes on at every await, an answer leaves, and
\* a timer that was set expires, as long as the process runs
FairDel ==
  /\ \A r \in Slots :
       /\ WF_vars(DeleteMeUpdate(r))
       /\ WF_vars(SendAccountDelete(r))
       /\ WF_vars(DeleteMeSetTimeout(r))
       /\ WF_vars(DelAnswered(r))
  /\ \A t \in Timers : WF_vars(TimerFires(t)) /\ WF_vars(TimerClears(t))

SpecDelFair == SpecDel /\ FairDel

\* ========================================================== error handler
\* controllers/errorController, the last middleware of the application, as
\* a function of the error it is given and of NODE_ENV.  An error object is
\* known by the fields the handler reads.
ValidatedFields == {"email", "username", "password", "role"}
UniqueFields == {"email", "username"}
AppErrorCodes == {400, 401, 403, 404, 500}
Environments == {"development", "test", "production", Absent}

\* an error of a library: no statusCode, no status, not operational
LibraryError(name, code, fields) ==
  [name |-> name, code |-> code, fields |-> fields, statusCode |-> 0,
   status |-> Absent, isOperational |-> FALSE]

\* new AppError(message, statusCode): status is 'fail' for a 4xx code
NewAppError(statusCode, fields) ==
  [name |-> "Error", code |-> 0, fields |-> fields,
   statusCode |-> statusCode,
   status |-> IF statusCode \div 100 = 4 THEN "fail" ELSE "error",
   isOperational |-> TRUE]

\* the errors a request can end with
Errors ==
  {LibraryError("ValidationError", 0, f) : f \in (SUBSET ValidatedFields) \ {{}}}
  \cup {LibraryError("MongoServerError", 11000, {f}) : f \in UniqueFields}
  \cup {LibraryError(n, 0, {}) :
          n \in {"CastError", "JsonWebTokenError", "TokenExpiredError",
                 "MongoServerError", "TypeError"}}
  \cup {NewAppError(c, {}) : c \in AppErrorCodes}

\* err.statusCode = err.statusCode || 500; err.status = err.status || 'error'
WithDefaults(err) ==
  [err EXCEPT !.statusCode = IF @ = 0 THEN 500 ELSE @,
              !.status = IF @ = Absent THEN "error" ELSE @]

\* the chain of handle...DB and handleJWT...: the last one that applies
Converted(err) ==
  IF err.name = "TokenExpiredError" THEN NewAppError(401, {})
  ELSE IF err.name = "JsonWebTokenError" THEN NewAppError(401, {})
  ELSE IF err.name = "ValidationError" THEN NewAppError(400, err.fields)
  ELSE IF err.code = 11000 THEN NewAppError(400, {})
  ELSE IF err.name = "CastError" THEN NewAppError(400, {})
  ELSE err

NoAnswer == [sent |-> FALSE]

\* res.status(statusCode).json({ status, error, message, stack })
SendErrorDev(error) ==
  [sent |-> TRUE, statusCode |-> error.statusCode, status |-> error.status,
   error |-> error]

\* operational errors are answered as they are, the others with a generic
\* 500
SendErrorProd(err) ==
  IF err.isOperational
  THEN [sent |-> TRUE, statusCode |-> err.statusCode, status |-> err.status,
        fields |-> err.fields]
  ELSE [sent |-> TRUE, statusCode |-> 500, status |-> "error", fields |-> {}]

ErrorControllerConverted(thrown, env) ==
  LET err == WithDefaults(thrown)
      error == Converted(err)
  IN IF env \in {"development", "test"} THEN SendErrorDev(error)
     ELSE IF env = "production" THEN SendErrorProd(error)
     ELSE NoAnswer

ErrorController(thrown, env) ==
  LET err == WithDefaults(thrown)
      error == Converted(err)
  IN IF env \in {"development", "test"} THEN SendErrorDev(err)
     ELSE IF env = "production" THEN SendErrorProd(error)
     ELSE NoAnswer

\* next(err) reaches the error handler
HandleError(thrown, env) ==
  /\ eres = NoQuery
  /\ eres' = [op |-> "error", thrown |-> thrown, env |-> env,
              answer |-> ErrorController(thrown, env)]
  /\ UNCHANGED notErrVars

ErrorAnswered ==
  /\ eres # NoQuery
  /\ eres' = NoQuery
  /\ UNCHANGED notErrVars

NextErr ==
  \/ \E thrown \in Errors, env \in Environments : HandleError(thrown, env)
  \/ ErrorAnswered

SpecErr == Init /\ [][NextErr]_vars

\* ================================================================ sockets
\* The socket.io server of server.js and getConnectionStatus of
\* controllers/userController.  A client opens a socket with the id of its
\* user in the handshake, emits events on it and closes it; the server
\* relays every event to the other sockets of the chat room.  The requests
\* of the clients are those that cancel the one demand of the store, one
\* at a time.
MaxSockets == 2

SockUsers == {"s1", "t1"}

\* the store with the pending demand of s1 to t1, nothing connected
InitSock ==
  /\ demands = <<[sender |-> "s1", receiver |-> "t1",
                  accepted |-> FALSE, cancelled |-> FALSE]>>
  /\ supervisor = [s \in Students |-> Null]
  /\ supervised = [t \in Teachers |-> <<>>]
  /\ req = [r \in Slots |-> IdleReq]
  /\ started = 0
  /\ MessagesEmpty
  /\ PageEmpty
  /\ Rest

SocketIds == 1..Len(sockets)

\* socket.to(CHAT_ROOM).emit(event, payload): to the live sockets of the
\* room but the emitting one
EmitToRoom(socks, from, event, payload) ==
  [event |-> event, payload |-> payload,
   to |-> {k \in 1..Len(socks) : socks[k].live /\ k # from}]

\* io.on('connection'): the user is pushed on the list unless find returns
\* an entry, then the others are told
Connect(userId) ==
  /\ sres = NoQuery
  /\ Len(sockets) < MaxSockets
  /\ sockets' = Append(sockets, [userId |-> userId, live |-> TRUE])
  /\ connections' = IF Includes(connections, userId) THEN connections
                    ELSE Append(connections, userId)
  /\ notif' = EmitToRoom(sockets', Len(sockets'), "notify_connection",
                         [userId |-> userId, connected |-> TRUE])
  /\ UNCHANGED sres
  /\ UNCHANGED notSockVars

\* the argument of SOCKET_CONNECTIONS.indexOf(id => id === userId): the
\* arrow function itself, which indexOf compares with === to the entries
Callback == "id => id === userId"

\* socket.on('disconnect'): the others are told, then the entry at the
\* index that indexOf returned is removed, if any
Disconnect(socket) ==
  /\ sres = NoQuery
  /\ socket \in SocketIds /\ sockets[socket].live
  /\ sockets' = [sockets EXCEPT ![socket].live = FALSE]
  /\ notif' = EmitToRoom(sockets, socket, "notify_connection",
                         [userId |-> sockets[socket].userId,
                          connected |-> FALSE])
  /\ LET index == IndexOf(connections, Callback)
     IN connections' = IF index # 0 THEN Splice(connections, index)
                       ELSE connections
  /\ UNCHANGED sres
  /\ UNCHANGED notSockVars

\* the events a socket may send, each with the event it is relayed as
RelayedAs ==
  [send_message |-> "receive_message",
   send_invitation |-> "receive_invitation",
   accept_invitation |-> "invitation_accepted",
   remove_contact |-> "contact_removed",
   send_teaching_demand |-> "receive_teaching_demand",
   accept_teaching_demand |-> "teaching_demand_accepted",
   cancel_teaching_demand |-> "teaching_demand_cancelled",
   event_created |-> "receive_event",
   accept_event |-> "event_accepted",
   decline_event |-> "event_declined",
   modify_event |-> "event_modified",
   delete_event |-> "event_deleted",
   complete_task |-> "task_completed",
   validate_task |-> "task_validated",
   create_task |-> "task_created"]

\* socket.on(event, payload => socket.to(CHAT_ROOM).emit(..., payload)):
\* the payload is the id of the document the client names
Relay(socket, event, payload) ==
  /\ socket \in SocketIds /\ sockets[socket].live
  /\ notif' = EmitToRoom(sockets, socket, RelayedAs[event], payload)
  /\ UNCHANGED <<sockets, connections, sres>>
  /\ UNCHANGED notSockVars

\* GET /users/:id/connection-status
GetConnectionStatus(user) ==
  /\ sres = NoQuery
  /\ sres' = [op |-> "getConnectionStatus", user |-> user,
              connected |-> Includes(connections, user)]
  /\ UNCHANGED <<sockets, connections, notif>>
  /\ UNCHANGED notSockVars

\* the answer has left
StatusAnswered ==
  /\ sres # NoQuery
  /\ sres' = NoQuery
  /\ UNCHANGED <<sockets, connections, notif>>
  /\ UNCHANGED notSockVars

NextSock ==
  \/ \E userId \in SockUsers : Connect(userId)
  \/ \E socket \in 1..MaxSockets : Disconnect(socket)
  \/ \E socket \in 1..MaxSockets, event \in DOMAIN RelayedAs,
        payload \in DemandIds : Relay(socket, event, payload)
  \/ \E user \in SockUsers : GetConnectionStatus(user)
  \/ StatusAnswered
  \/ \E u \in SockUsers, d \in DemandIds : StartCancel(FirstSlot, u, d)
  \/ CancelFind(FirstSlot)
  \/ CancelSetCancelled(FirstSlot)

SpecSock == InitSock /\ [][NextSock]_vars

\* ================================================================ claims
Range(f) == {f[i] : i \in DOMAIN f}
NoDuplicates(f) == \A i, j \in DOMAIN f : i # j => f[i] # f[j]
Pending(d) == ~d.accepted /\ ~d.cancelled
InProgress(r, op) == req[r].op = op /\ ~Free(r)
\* slot r takes the first step of its handler (the lookup and the checks)
FindStep(r, op) ==
  /\ req[r].op = op /\ req[r].pc = "find"
  /\ req'[r] # req[r]
  /\ req[r].demandId \in DemandIds
\* slot r answers 200 to an acceptDemand
AcceptResponds(r) ==
  /\ req[r].op = "acceptDemand" /\ req[r].pc = "writeSupervised"
  /\ req'[r].pc = "done"
Failed(q) == q.pc = "done" /\ q.resp.status >= 400

\* C1: whenever no accept request is in progress, every student's supervisor
\* is null or a teacher whose supervised list contains the student.
C1_SupervisorListsStudent ==
  (\A r \in Slots : ~InProgress(r, "acceptDemand")) =>
    \A s \in Students :
      supervisor[s] # Null => s \in Range(supervised[supervisor[s]])

\* C2: of the accepts of two demands of one student by two teachers at most
\* one succeeds, and afterwards the student is in the supervised list of
\* exactly the one teacher who is the student's supervisor.
C2_OneAcceptWins ==
  Quiescent =>
    \A s \in Students :
      /\ \A i, j \in DemandIds :
           (/\ demands[i].sender = s /\ demands[j].sender = s
            /\ demands[i].receiver # demands[j].receiver
            /\ demands[i].accepted) => ~demands[j].accepted
      /\ Cardinality({t \in Teachers : s \in Range(supervised[t])}) <= 1

\* C3: in every reachable state a student is the sender of at most one
\* demand that is accepted and not cancelled.
C3_SingleMentor ==
  \A s \in Students :
    Cardinality({i \in DemandIds : /\ demands[i].sender = s
                                   /\ demands[i].accepted
                                   /\ ~demands[i].cancelled}) <= 1

\* C4: ACCEPTED and CANCELLED are terminal and exclusive: an accepted demand
\* is never cancelled afterwards, a cancelled demand is never accepted
\* afterwards, and no demand is both.
C4_TerminalExclusive ==
  [][\A i \in DemandIds :
       /\ demands[i].accepted => demands'[i].cancelled = demands[i].cancelled
       /\ demands[i].cancelled => demands'[i].accepted = demands[i].accepted
       /\ ~(demands'[i].accepted /\ demands'[i].cancelled)]_vars

\* C5: whenever no request is in progress, a student in a teacher's
\* supervised list has that teacher as supervisor.
C5_SupervisedImpliesSupervisor ==
  Quiescent =>
    \A t \in Teachers : \A s \in Range(supervised[t]) : supervisor[s] = t

\* C6: cancelDemand on a pending demand goes on to set cancelled when the
\* actor is its sender or its receiver, and is refused with 403, the demand
\* unchanged, for any other actor.
C6_CancelBySenderOrReceiver ==
  [][\A r \in Slots : FindStep(r, "cancelDemand") =>
       LET d == demands[req[r].demandId]
       IN Pending(d) =>
            IF req[r].actor \in {d.sender, d.receiver}
            THEN req'[r].pc = "setCancelled"
            ELSE /\ Failed(req'[r]) /\ req'[r].resp.status = 403
                 /\ demands' = demands]_vars

\* C7: acceptDemand on a cancelled demand and cancelDemand on an accepted
\* demand, by an actor of the demand, are answered with the invalid-state
\* error (400) and change nothing in the store.
C7_WrongStateRejected ==
  [][\A r \in Slots :
       /\ FindStep(r, "acceptDemand") =>
            LET d == demands[req[r].demandId]
            IN (d.cancelled /\ req[r].actor = d.receiver) =>
                 /\ Failed(req'[r]) /\ req'[r].resp.status = 400
                 /\ store' = store
       /\ FindStep(r, "cancelDemand") =>
            LET d == demands[req[r].demandId]
            IN (d.accepted /\ req[r].actor \in {d.sender, d.receiver}) =>
                 /\ Failed(req'[r]) /\ req'[r].resp.status = 400
                 /\ store' = store]_vars

\* C8: a repeated acceptDemand on an accepted demand and a repeated
\* cancelDemand on a cancelled demand fail at once and change nothing.
C8_RepeatFails ==
  [][\A r \in Slots :
       /\ FindStep(r, "acceptDemand") =>
            LET d == demands[req[r].demandId]
            IN (d.accepted /\ req[r].actor = d.receiver) =>
                 Failed(req'[r]) /\ store' = store
       /\ FindStep(r, "cancelDemand") =>
            LET d == demands[req[r].demandId]
            IN (d.cancelled /\ req[r].actor \in {d.sender, d.receiver}) =>
                 Failed(req'[r]) /\ store' = store]_vars

\* C9: the cascade of an accept of demand D cancels every other pending
\* demand of D's sender, whatever its receiver, and when the accept answers
\* 200, D is not cancelled.
C9_AcceptCancelsSiblings ==
  [][\A r \in Slots :
       LET D == req[r].demandId
       IN /\ (req[r].op = "acceptDemand" /\ req[r].pc = "cancelOthers"
              /\ req'[r].pc = "setSupervisor") =>
               \A j \in DemandIds \ {D} :
                 (demands[j].sender = demands[D].sender /\ Pending(demands[j]))
                   => demands'[j].cancelled
          /\ AcceptResponds(r) => ~demands'[D].cancelled]_vars

\* C10: a teacher's supervised list never contains a student twice, also
\* after repeated accepts of the same demand, and an accept that reads the
\* list as absent answers 200 with the sender in the list it wrote.
C10_NoDuplicateSupervised ==
  [][/\ \A t \in Teachers : NoDuplicates(supervised'[t])
     /\ \A r \in Slots : AcceptResponds(r) =>
          LET d == demands[req[r].demandId]
          IN /\ req'[r].resp.status = 200
             /\ d.sender \in Range(supervised'[d.receiver])]_vars

\* two accepts were answered 200, both of the same demand, whose receiver
\* lists the sender once
C10_Witness ==
  /\ \A r \in Slots : req[r].op = "acceptDemand" /\ req[r].pc = "done"
                      /\ req[r].resp.status = 200
  /\ Cardinality({i \in DemandIds : demands[i].accepted}) = 1
  /\ \E i \in DemandIds :
       /\ demands[i].accepted
       /\ supervised[demands[i].receiver] = <<demands[i].sender>>

\* C11: a sendDemand whose existence check finds a non-cancelled demand of
\* the same sender to the same receiver is answered 400 and creates nothing.
C11_DuplicateSendRejected ==
  [][\A r \in Slots :
       (/\ req[r].op = "sendDemand" /\ req[r].pc = "findExisting"
        /\ req'[r] # req[r]
        /\ \E i \in DemandIds : /\ demands[i].sender = req[r].actor
                                /\ demands[i].receiver = req[r].receiver
                                /\ ~demands[i].cancelled) =>
         /\ Failed(req'[r]) /\ req'[r].resp.status = 400
         /\ req'[r].resp.message \in {"already collaborating",
                                      "pending teaching request"}
         /\ demands' = demands]_vars

\* a second sendDemand for a pair with a pending demand was refused
C11_Witness ==
  \E r \in Slots :
    /\ req[r].op = "sendDemand" /\ req[r].pc = "done"
    /\ req[r].resp = AppError("pending teaching request", 400)
    /\ Len(demands) = 1 /\ Pending(demands[1])

\* C12: a (sender, receiver) pair never has two non-cancelled demands, also
\* when two sendDemand of the pair interleave.
C12_OneActivePerPair ==
  \A s \in Students, t \in Teachers :
    Cardinality({i \in DemandIds : /\ demands[i].sender = s
                                   /\ demands[i].receiver = t
                                   /\ ~demands[i].cancelled}) <= 1

\* C13: sendDemand answers 'multiple mentors' when the sender has an
\* accepted demand; otherwise it creates one pending demand and answers 201;
\* a sendDemand that answers an error creates no demand.
C13_SendCreatesOrFails ==
  [][\A r \in Slots : (req[r].op = "sendDemand" /\ req'[r] # req[r]) =>
       /\ (/\ req[r].pc = "findApproved"
           /\ \E i \in DemandIds : /\ demands[i].sender = req[r].actor
                                   /\ demands[i].accepted) =>
            /\ req'[r].resp = AppError("multiple mentors", 400)
            /\ req'[r].pc = "done"
       /\ (req[r].pc = "inserting") =>
            /\ req'[r].resp.status = 201
            /\ demands' = Append(demands,
                 [sender |-> req[r].actor, receiver |-> req[r].receiver,
                  accepted |-> FALSE, cancelled |-> FALSE])
       /\ (req[r].resp.status = 0 /\ req'[r].resp.status >= 400) =>
            req'[r].pc = "done"]_vars

\* C14: after sendMessage calls handled one after the other, the messages
\* of every pair of users carry the indexes 1..N in the order of sending.
C14_SequentialIndexes ==
  \A a \in MsgUsers, b \in MsgUsers :
    \A i \in Between(a, b) :
      messages[i].indexMessage = Cardinality({j \in Between(a, b) : j <= i})

\* C15: no two messages of the same pair of users carry the same
\* indexMessage, also when two sendMessage are handled at the same time.
C15_NoDuplicateIndex ==
  \A a \in MsgUsers, b \in MsgUsers :
    \A i \in Between(a, b), j \in Between(a, b) :
      i # j => messages[i].indexMessage # messages[j].indexMessage

\* C17: a sendMessage without files and without content (missing or blank)
\* persists no message, so no stored message is empty.
C17_EmptyMessageNotStored ==
  \A i \in MessageIds : ~IsEmptyBody(messages[i].content, messages[i].files)

\* the users that id exchanged a message with
Counterparts(id) == {c \in MsgUsers \ {id} : Between(id, c) # {}}
CounterpartOf(id, entry) ==
  IF entry.sender = id THEN entry.receiver ELSE entry.sender

C18_OnlyBetweenTheTwo ==
  (qres.op = "getConversation" /\ qres.resp.status = 200) =>
    \A k \in 1..Len(qres.result) :
      qres.result[k] \in Between(qres.sender, qres.receiver)

\* the documents a list request of pres should choose from, latest first
Listed == SortedByCreatedAtDesc(Matching(pres.requester, pres.role))

\* C19: a list request for page p > 1 with limit l fails with 404 exactly
\* when (p-1)*l is at least the number of matching documents, and otherwise
\* returns the documents (p-1)*l+1 .. min(p*l, count) of the matching ones.
C19_PageBeyondMatching ==
  (/\ pres.op = "getAllUsers"
   /\ Truthy(pres.page) /\ ToNumber[pres.page] > 1
   /\ Truthy(pres.limit)) =>
    LET skip == (ToNumber[pres.page] - 1) * ToNumber[pres.limit]
    IN IF skip >= Len(Listed)
       THEN pres.resp.status = 404
       ELSE /\ pres.resp.status = 200
            /\ pres.result = SkipLimit(Listed, skip, ToNumber[pres.limit])

\* C20 as stated: a list request without page and limit returns at most
\* the first 10 matching documents, and a request with only one of the two
\* uses the default (page 1, limit 10) for the other.
C20_DefaultsAlways ==
  (pres.op = "getAllUsers" /\ pres.resp.status = 200) =>
    /\ (pres.page = Absent /\ pres.limit = Absent) =>
         pres.result = SkipLimit(Listed, 0, 10)
    /\ (Truthy(pres.page) /\ pres.limit = Absent) =>
         pres.result = SkipLimit(Listed, (ToNumber[pres.page] - 1) * 10, 10)
    /\ (pres.page = Absent /\ Truthy(pres.limit)) =>
         pres.result = SkipLimit(Listed, 0, ToNumber[pres.limit])

\* C20, amended: a list request with only one of page and limit uses the
\* default for the other (page 1, limit 10); a request with neither is not
\* paginated and returns every matching document.
C20_DefaultsWhenPaginated ==
  (pres.op = "getAllUsers" /\ pres.resp.status = 200) =>
    /\ (pres.page = Absent /\ pres.limit = Absent) =>
         pres.result = Listed
    /\ (Truthy(pres.page) /\ pres.limit = Absent) =>
         pres.result = SkipLimit(Listed, (ToNumber[pres.page] - 1) * 10, 10)
    /\ (pres.page = Absent /\ Truthy(pres.limit)) =>
         pres.result = SkipLimit(Listed, 0, ToNumber[pres.limit])

\* eleven users match and only page=2 is given: the answer is the eleventh
C20_Witness ==
  /\ pres.op = "getAllUsers"
  /\ pres.page = "2" /\ pres.limit = Absent
  /\ pres.resp.status = 200
  /\ Len(Listed) = 11
  /\ Len(pres.result) = 1

\* C21: whatever the query parameters, the list getAllUsers answers holds
\* no admin and not the requesting user: the filter of the caller is joined
\* to the filter of the query by $and.
C21_CallerFilterKept ==
  pres.op = "getAllUsers" =>
    \A k \in 1..Len(pres.result) :
      /\ pres.result[k] \in DocIds
      /\ docs[pres.result[k]].role # "admin"
      /\ pres.result[k] # pres.requester

\* the query asks for the admins, an admin other than the requester exists,
\* and the request is answered with a list
C21_Witness ==
  /\ pres.op = "getAllUsers"
  /\ pres.role = "admin"
  /\ pres.resp.status = 200
  /\ \E i \in DocIds : docs[i].role = "admin"
  /\ docs[pres.requester].role = "student"

\* C22: in every event the guests and the attendees have no user in common
\* and neither list holds a user twice.
C22_GuestsAttendeesDisjoint ==
  \A e \in Events :
    events[e] # NoEvent =>
      /\ NoDuplicates(events[e].guests)
      /\ NoDuplicates(events[e].attendees)
      /\ Range(events[e].guests) \cap Range(events[e].attendees) = {}

\* slot r gives its answer in this step
EvtEnds(r) == ereq[r].pc # "done" /\ ereq'[r].pc = "done"
Members(list) == {list[k] : k \in 1..Len(list)}

\* C23: an accepted invitation moves the user from the guests to the
\* attendees and a declined one removes the user from both, no other member
\* changing; the organizer is answered 400, a user in neither list 403 and
\* an attendee who accepts again 400, the event staying as it was.
C23_InvitationTransitions ==
  [][\A r \in Slots :
       (EvtEnds(r)
        /\ ereq'[r].op \in {"acceptInvitation", "declineInvitation"}
        /\ events[ereq'[r].event] # NoEvent) =>
         LET user == ereq'[r].user
             op == ereq'[r].op
             status == ereq'[r].resp.status
             before == events[ereq'[r].event]
             after == events'[ereq'[r].event]
         IN /\ status = 200 =>
                 /\ user \notin Members(after.guests)
                 /\ Members(after.guests) = Members(before.guests) \ {user}
                 /\ Members(after.attendees) =
                      IF op = "acceptInvitation"
                      THEN Members(before.attendees) \cup {user}
                      ELSE Members(before.attendees) \ {user}
            /\ status # 200 => after = before
            /\ user = before.organizer => status = 400
            /\ (/\ user # before.organizer
                /\ user \notin Members(before.guests)
                /\ user \notin Members(before.attendees)) => status = 403
            /\ (/\ op = "acceptInvitation"
                /\ user \notin Members(before.guests)
                /\ user \in Members(before.attendees)) => status = 400
    ]_vars

\* C24: a validated task is a done task, in every state.
C24_ValidatedImpliesDone ==
  \A id \in TaskIds : tasks[id].validated => tasks[id].done

C24_Witness ==
  \E id \in TaskIds : tasks[id].validated /\ tasks[id].validator \in Teachers

\* slot r gives the answer to its task request in this step
TaskEnds(r) == treq[r].pc # "done" /\ treq'[r].pc = "done"

\* C25: validateTask by teacher T succeeds only if T is the supervisor of
\* the performer and the task is done, and then records T as validator; if
\* T is not the supervisor of the performer (who may have none) the answer
\* is 403 and the task stays as it was.
C25_ValidateBySupervisorOnly ==
  [][\A r \in Slots :
       (TaskEnds(r) /\ treq'[r].op = "validateTask"
        /\ treq'[r].task \in TaskIds) =>
         LET teacher == treq'[r].user
             status == treq'[r].resp.status
             before == tasks[treq'[r].task]
             after == tasks'[treq'[r].task]
         IN /\ status = 200 =>
                 /\ supervisor[before.performer] = teacher
                 /\ before.done
                 /\ after.validated /\ after.validator = teacher
            /\ supervisor[before.performer] # teacher =>
                 /\ status = 403
                 /\ after = before
    ]_vars

\* C26: when no contact request is in progress, B is a contact of A
\* exactly if A is a contact of B.
C26_ContactsSymmetric ==
  ConIdle =>
    \A a \in ConUsers, b \in ConUsers :
      Includes(contacts[a], b) <=> Includes(contacts[b], a)

\* slot r gives the answer to its request in this step
DelEnds(r) == dreq[r].pc # "done" /\ dreq'[r].pc = "done"

MaxIndex(ids) ==
  CHOOSE n \in {messages[i].indexMessage : i \in ids} :
    \A i \in ids : messages[i].indexMessage <= n

\* C29: a new message gets index 1 if the two users have no message yet,
\* else one more than the highest indexMessage of their messages, whatever
\* the sent timestamps are.
C29_IndexFollowsHighest ==
  [][Len(messages') = Len(messages) + 1 =>
       LET new == messages'[Len(messages')]
           existing == Between(new.sender, new.receiver)
       IN new.indexMessage =
            IF existing = {} THEN 1 ELSE MaxIndex(existing) + 1
    ]_vars

\* C30: when a teacher has accepted the demands of two different students
\* and no request is in progress, both students are in the supervised list
\* of the teacher.
C30_BothStudentsSupervised ==
  Quiescent =>
    \A i \in DemandIds, j \in DemandIds :
      (/\ demands[i].accepted /\ demands[j].accepted
       /\ demands[i].receiver = demands[j].receiver
       /\ demands[i].sender # demands[j].sender
       /\ supervisor[demands[i].sender] = demands[i].receiver
       /\ supervisor[demands[j].sender] = demands[j].receiver) =>
        {demands[i].sender, demands[j].sender}
          \subseteq Range(supervised[demands[i].receiver])
\* C31: when no request is in progress, the sender of every accepted demand
\* has the demand's receiver as supervisor, also after an accept whose
\* cascade was cut short by a rejected query.
C31_AcceptAllOrNothing ==
  Quiescent =>
    \A i \in DemandIds :
      demands[i].accepted => supervisor[demands[i].sender] = demands[i].receiver

Occurrences(arr, el) == Cardinality({k \in 1..Len(arr) : arr[k] = el})

\* C33: addContact of A for B goes on to its writes only if B is in A's
\* invitations, and otherwise answers 400 and changes no user; when its
\* last write has landed B is no longer in A's invitations and each of the
\* two users is in the other's contacts exactly once.
C33_AddContactNeedsInvitation ==
  [][/\ (ConIdle /\ creq'.op = "addContact") =>
          IF Includes(invitations[creq'.user], creq'.contact)
          THEN creq'.pc = "writeOther"
          ELSE /\ creq'.pc = "done" /\ creq'.resp.status = 400
               /\ contacts' = contacts /\ invitations' = invitations
     /\ (creq.op = "addContact" /\ creq.pc = "writeSelf") =>
          /\ creq'.pc = "done" /\ creq'.resp.status = 200
          /\ ~Includes(invitations'[creq.user], creq.contact)
          /\ Occurrences(contacts'[creq.user], creq.contact) = 1
          /\ Occurrences(contacts'[creq.contact], creq.user) = 1]_vars

\* an addContact has succeeded between two users who were contacts already
C33_Witness ==
  /\ creq.op = "addContact" /\ creq.pc = "done" /\ creq.resp.status = 200
  /\ Len(contacts[creq.user]) = 1 /\ Len(contacts[creq.contact]) = 1
  /\ Includes(contacts[creq.user], creq.contact)
  /\ Includes(contacts[creq.contact], creq.user)

\* C34: the list of connected users holds no id twice, and
\* getConnectionStatus answers connected = false for a user none of whose
\* sockets is still open.
C34_RegistryTracksSockets ==
  /\ NoDuplicates(connections)
  /\ sres # NoQuery =>
       ((\A k \in SocketIds : sockets[k].live => sockets[k].userId # sres.user)
          => ~sres.connected)

\* C36: a teaching_demand_cancelled notification is emitted to the room
\* only for a demand that is stored as cancelled.
C36_NotifiedAfterPersisted ==
  (notif # NoQuery /\ notif.event = "teaching_demand_cancelled") =>
    demands[notif.payload].cancelled

\* C35: getAllDemands answers a student with exactly the demands the
\* student has sent, and a teacher with exactly the demands the teacher has
\* received.
C35_DemandsOfTheUser ==
  [][\A r \in Slots :
       (req'[r].op = "getAllDemands" /\ req'[r] # req[r]) =>
         req'[r].resp.data =
           {i \in DemandIds :
              IF req'[r].actor \in Students
              THEN demands[i].sender = req'[r].actor
              ELSE demands[i].receiver = req'[r].actor}]_vars

\* C37: the two writes of deleteContact of A for B leave both lists as they
\* were when B is no contact of A, and otherwise take only A out of B's
\* contacts and only B out of A's; the lists of the other users stay.
C37_DeleteContactFrame ==
  [][(creq.op = "deleteContact" /\ creq.pc \in {"writeOther", "writeSelf"}) =>
       LET id == creq.user
           otherId == creq.contact
           written == IF creq.pc = "writeOther" THEN otherId ELSE id
           removed == IF creq.pc = "writeOther" THEN id ELSE otherId
       IN /\ contacts'[written] =
               IF Includes(contacts[id], otherId)
               THEN Without(contacts[written], removed)
               ELSE contacts[written]
          /\ \A u \in ConUsers \ {written} : contacts'[u] = contacts[u]]_vars

\* C38: the write of an updateEvent whose body had no guests and no
\* attendees leaves the guests and the attendees of the event as they were.
C38_UpdateKeepsLists ==
  [][\A r \in Slots :
       (/\ ereq[r].op = "updateEvent" /\ ereq[r].pc = "update"
        /\ ereq[r].listless /\ ereq'[r].pc = "done") =>
         /\ events'[ereq[r].event].guests = events[ereq[r].event].guests
         /\ events'[ereq[r].event].attendees =
              events[ereq[r].event].attendees]_vars

\* C39: the write of an acceptInvitation or a declineInvitation of one user
\* takes no other user out of, or back into, the guests or the attendees of
\* the event: the answer another guest gave in the meantime is kept.
C39_NoAnswerLost ==
  [][\A r \in Slots :
       (/\ ereq[r].op \in {"acceptInvitation", "declineInvitation"}
        /\ ereq[r].pc = "update" /\ ereq'[r].pc = "done") =>
         \A v \in EvtUsers \ {ereq[r].user} :
           /\ Includes(events'[ereq[r].event].guests, v)
                <=> Includes(events[ereq[r].event].guests, v)
           /\ Includes(events'[ereq[r].event].attendees, v)
                <=> Includes(events[ereq[r].event].attendees, v)]_vars

\* C40: when the handler of a list request has returned, the request has
\* been given an answer, a success or an error.
C40_ListRequestAnswered ==
  pres # NoQuery => pres.resp # NoResp

====
